---- MODULE Spec2Model ----
(***************************************************************************)
(* A model of the tk-unreal integration layer:                             *)
(*   - the sequence edit-graph traversal of the publish collector          *)
(*     (hooks/tk-multi-publish2/basic/collector.py),                       *)
(*   - the context resolver and the version resolver of                    *)
(*     libs/unreal_utils.py, as used by the actor and movie publish        *)
(*     plugins,                                                            *)
(*   - the name and path parsers of libs/unreal_utils.py and the           *)
(*     collection of rendered movies that uses them,                       *)
(*   - the version-suffix functions of libs/unreal_utils.py,               *)
(*   - the creation of asset, actor and folder items by the collector,     *)
(*   - the loader actions (hooks/tk-multi-loader2/tk-unreal_actions.py),   *)
(*   - the menu commands of python/tk_unreal/unreal_sg_engine.py,          *)
(*   - update_status of libs/unreal_utils.py.                              *)
(* Each subsystem has its own specification (SpecGraph, SpecResolve,       *)
(* SpecPublish, SpecLookup, SpecParse, SpecCollect, SpecVersion,           *)
(* SpecItems, SpecLoader, SpecCommand, SpecStatus); the variables of the   *)
(* other subsystems keep their initial value.                              *)
(***************************************************************************)
EXTENDS Integers, Sequences, FiniteSets, TLC

\* ------------------------------------------------------------------ bounds

\* Number of Level Sequence assets of the project.
NumSeqs == 3

\* Total number of sub-sequence sections over all cinematic shot tracks.
MaxEdits == 3

\* Number of Task rows of the production database.
MaxTasks == 2

\* Number of publish items collected by the running sessions.
NumItems == 2

\* Number of PublishedFile rows a direct lookup searches.
MaxRecords == 2

\* Highest version number another tool registers.
MaxVersion == 2

\* Latest modification time of a rendered movie (seconds).
MaxTime == 1

\* Longest run of path segments after the first three.
MaxTail == 4

\* Most '_'-separated tokens of a sequence name or of a movie's basename.
MaxParts == 4

\* Most files, and most directories, of the render folder.
MaxFiles == 2

MaxDirs == 1

\* Most characters after the ' v' of a version suffix.
MaxDigits == 3

\* Most items one collection of the selection creates.
MaxSessionItems == 1

\* Longest list of loader actions.
MaxActions == 3

\* Number of tasks whose status is followed.
NumStatusTasks == 2

VARIABLES
    \* ---- edit-graph traversal (collector.py)
    shot_tracks,           \* per Level Sequence: the sections of its shot tracks
    sequence_edits,  \* retrieve_sequence_edits's dictionary
    gpc,             \* "editing" | "ready" | "walking" | "done" | "raised"
    start,           \* the sequence get_all_paths_from_sequence was called on
    stack,           \* the call stack of get_all_paths_from_sequence
    result,          \* the list of paths the outermost call returned
    warned,          \* number of cycle warnings the logger received
    \* ---- context resolver (unreal_utils.py)
    sg_tasks,        \* the Task rows of the production database, by id
    rcall,           \* the last resolver call: its arguments and its return
    \* ---- version resolver and publish plugins
    sg_publishes,    \* the PublishedFile rows of the production database, by id
    items,           \* the publish items of the running sessions
    lcall,           \* the last direct lookup: its arguments and its return
    \* ---- name and path parsers (unreal_utils.py)
    pcall,           \* the last parser call: its argument and its outcome
    \* ---- collection of rendered movies (collector.py)
    render_files,    \* the filenames os.walk lists for the render folder
    render_dirs,     \* its dirnames, each with the files the directory holds
    cpc,             \* "listing" | "files" | "dirs" | "done" | "raised"
    cpos,            \* position of the running loop in its list
    movie_items,     \* the items created under the parent item
    \* ---- version-suffix functions (unreal_utils.py)
    vcall,           \* the last call: its arguments and its outcome
    \* ---- creation of publish items (collector.py)
    session_items,   \* the asset, actor and folder items created so far
    seq_items,       \* the items collect_level_sequence created, one per path
    \* ---- loader actions (tk-unreal_actions.py)
    actions,         \* the list execute_multiple_actions was called with
    apos,            \* position of the loop in the list
    executed,        \* the positions execute_action was called on, in order
    lpc,             \* "idle", "running", "done", "raised"
    \* ---- menu commands (unreal_sg_engine.py)
    commands,        \* engine.commands: the names that have a callback
    _callback,       \* self._callback: None or the stored callback
    ecall,           \* the last execute_command call and what it did
    \* ---- task status (unreal_utils.py)
    task_status,     \* sg_status_list of every task
    ctx_task,        \* engine.context.task: None or a task
    ucall            \* the running update_status call and what it did

gvars == <<shot_tracks, sequence_edits, gpc, start, stack, result, warned>>

rvars == <<sg_tasks, rcall>>

pvars == <<sg_publishes, items, lcall>>

xvars == <<pcall>>

cvars == <<render_files, render_dirs, cpc, cpos, movie_items>>

nvars == <<vcall>>

ivars == <<session_items, seq_items>>

avars == <<actions, apos, executed, lpc>>

evars == <<commands, _callback, ecall>>

svars == <<task_status, ctx_task, ucall>>

vars == <<gvars, rvars, pvars, xvars, cvars, nvars, ivars, avars, evars, svars>>

\* What each subsystem leaves alone.
NotGraph == <<rvars, pvars, xvars, cvars, nvars, ivars, avars, evars, svars>>

NotResolve == <<gvars, pvars, xvars, cvars, nvars, ivars, avars, evars, svars>>

NotPublish == <<gvars, rvars, xvars, cvars, nvars, ivars, avars, evars, svars>>

NotParse == <<gvars, rvars, pvars, cvars, nvars, ivars, avars, evars, svars>>

NotCollect == <<gvars, rvars, pvars, xvars, nvars, ivars, avars, evars, svars>>

NotVersion == <<gvars, rvars, pvars, xvars, cvars, ivars, avars, evars, svars>>

NotItems == <<gvars, rvars, pvars, xvars, cvars, nvars, avars, evars, svars>>

NotLoader == <<gvars, rvars, pvars, xvars, cvars, nvars, ivars, evars, svars>>

NotCommand == <<gvars, rvars, pvars, xvars, cvars, nvars, ivars, avars, svars>>

NotStatus == <<gvars, rvars, pvars, xvars, cvars, nvars, ivars, avars, evars>>

\* ------------------------------------------------------ general helpers

\* The elements of a sequence.
Range(s) == {s[i] : i \in 1..Len(s)}

RECURSIVE SumLen(_, _)
SumLen(f, S) ==
    IF S = {} THEN 0
    ELSE LET x == CHOOSE y \in S : TRUE
         IN Len(f[x]) + SumLen(f, S \ {x})

\* ---------------------------------------------------- edit-graph traversal

\* The Level Sequence assets, in asset-registry order.
Seqs == 1..NumSeqs

\* SequenceEdit = namedtuple("SequenceEdit", ["sequence", "track", "section"]).
\* The track and the section are identified by the section's position in the
\* containing sequence's shot tracks.
SequenceEdit(lvseq, section) == [sequence |-> lvseq, section |-> section]

\* A section of a shot track that is no sub-section: section.get_sequence()
\* raises AttributeError. (A number, as the Level Sequences are.)
NotSub == 0

\* What a section of a shot track can hold.
SectionTargets == Seqs \cup {NotSub}

\* The edits appended while the sections of one Level Sequence are visited:
\* one SequenceEdit(lvseq, track, section) per section, under the section's
\* sub-sequence; `except AttributeError: pass` skips the others.
RECURSIVE EditsOfSections(_, _, _, _)
EditsOfSections(edits, lvseq, sections, k) ==
    IF k > Len(sections) THEN edits
    ELSE EditsOfSections(
            IF sections[k] = NotSub
            THEN edits
            ELSE [edits EXCEPT ![sections[k]] = Append(@, SequenceEdit(lvseq, k))],
            lvseq, sections, k + 1)

\* retrieve_sequence_edits: loop over all Level Sequences in registry order.
RECURSIVE EditsOfSequences(_, _, _)
EditsOfSequences(edits, sc, lvseq) ==
    IF lvseq > NumSeqs THEN edits
    ELSE EditsOfSequences(EditsOfSections(edits, lvseq, sc[lvseq], 1), sc, lvseq + 1)

\* defaultdict(list): every key starts with the empty list.
retrieve_sequence_edits(sc) ==
    EditsOfSequences([s \in Seqs |-> <<>>], sc, 1)

\* One activation of get_all_paths_from_sequence, after visited.append().
Frame(level_sequence, visited) ==
    [level_sequence |-> level_sequence,
     visited        |-> Append(visited, level_sequence),
     idx            |-> 1,
     all_paths      |-> <<>>]

\* A cycle check that compares with the current sequence only.
InVisitedCurrentOnly(sequence, visited) == sequence = visited[Len(visited)]

\* `edit.sequence in visited`
InVisited(sequence, visited) == sequence \in Range(visited)

\* `"->".join(visited)`: str.join accepts str items only; visited holds
\* unreal.LevelSequence objects, so the call raises TypeError whenever the list
\* is not empty (it always holds at least the current sequence).
JoinRaises(visited) == Len(visited) > 0

\* edit_path + [level_sequence]: the current sequence after its parents.
PrependAfter(level_sequence, paths) ==
    [i \in 1..Len(paths) |-> paths[i] \o <<level_sequence>>]

\* [level_sequence] + edit_path, for every edit_path of the callee's return.
Prepend(level_sequence, paths) ==
    [i \in 1..Len(paths) |-> <<level_sequence>> \o paths[i]]

Top == stack[Len(stack)]

TopEdits == sequence_edits[Top.level_sequence]

\* A return from a call that was handed the caller's own visited list instead
\* of a copy: what the callee appended stays on the caller's list.
ReturnShared(paths) ==
    IF Len(stack) = 1
    THEN /\ stack' = <<>>
         /\ result' = paths
         /\ gpc' = "done"
    ELSE LET caller == stack[Len(stack) - 1]
         IN /\ stack' = SubSeq(stack, 1, Len(stack) - 2) \o
                          <<[caller EXCEPT
                               !.all_paths = @ \o Prepend(caller.level_sequence, paths),
                               !.visited = stack[Len(stack)].visited,
                               !.idx = @ + 1]>>
            /\ result' = result
            /\ gpc' = gpc

\* The value returned to the caller of the top frame: pops the frame and
\* resumes the caller's inner loop (lines 590-596), or ends the outer call.
Return(paths) ==
    IF Len(stack) = 1
    THEN /\ stack' = <<>>
         /\ result' = paths
         /\ gpc' = "done"
    ELSE LET caller == stack[Len(stack) - 1]
         IN /\ stack' = SubSeq(stack, 1, Len(stack) - 2) \o
                          <<[caller EXCEPT
                               !.all_paths = @ \o Prepend(caller.level_sequence, paths),
                               !.idx = @ + 1]>>
            /\ result' = result
            /\ gpc' = gpc

\* The editor adds a section to a shot track of `parent`.
AddSection(parent, child) ==
    /\ gpc = "editing"
    /\ SumLen(shot_tracks, Seqs) < MaxEdits
    /\ shot_tracks' = [shot_tracks EXCEPT ![parent] = Append(@, child)]
    /\ UNCHANGED <<sequence_edits, gpc, start, stack, result, warned, NotGraph>>

RetrieveSequenceEdits ==
    /\ gpc = "editing"
    /\ sequence_edits' = retrieve_sequence_edits(shot_tracks)
    /\ gpc' = "ready"
    /\ UNCHANGED <<shot_tracks, start, stack, result, warned, NotGraph>>

\* The outermost call: visited is None, replaced by [] and appended to.
CallGetAllPaths(level_sequence) ==
    /\ gpc = "ready"
    /\ start' = level_sequence
    /\ stack' = <<Frame(level_sequence, <<>>)>>
    /\ gpc' = "walking"
    /\ UNCHANGED <<shot_tracks, sequence_edits, result, warned, NotGraph>>

\* A sequence without parent edits that returns no path at all.
ReturnSingleEmpty ==
    /\ gpc = "walking"
    /\ TopEdits = <<>>
    /\ Return(<<>>)
    /\ UNCHANGED <<shot_tracks, sequence_edits, start, warned, NotGraph>>

\* `if not sequence_edits[level_sequence]: return [[level_sequence]]`
ReturnSingle ==
    /\ gpc = "walking"
    /\ TopEdits = <<>>
    /\ Return(<<<<Top.level_sequence>>>>)
    /\ UNCHANGED <<shot_tracks, sequence_edits, start, warned, NotGraph>>

\* The loop meets an edit whose sequence is on the visited stack: the
\* warning's argument is evaluated first, and raises.
DetectCycle ==
    /\ gpc = "walking"
    /\ TopEdits # <<>>
    /\ Top.idx <= Len(TopEdits)
    /\ InVisited(TopEdits[Top.idx].sequence, Top.visited)
    /\ IF JoinRaises(Top.visited)
       THEN \* TypeError propagates through every activation: no handler.
            /\ gpc' = "raised"
            /\ stack' = <<>>
            /\ warned' = warned
       ELSE /\ warned' = warned + 1
            /\ stack' = [stack EXCEPT ![Len(stack)].idx = @ + 1]
            /\ gpc' = gpc
    /\ UNCHANGED <<shot_tracks, sequence_edits, start, result, NotGraph>>

\* The recursive call, on a copy of the visited stack.
Recurse ==
    /\ gpc = "walking"
    /\ TopEdits # <<>>
    /\ Top.idx <= Len(TopEdits)
    /\ ~InVisited(TopEdits[Top.idx].sequence, Top.visited)
    /\ stack' = Append(stack, Frame(TopEdits[Top.idx].sequence, Top.visited))
    /\ UNCHANGED <<shot_tracks, sequence_edits, gpc, start, result, warned, NotGraph>>

\* The loop is over: `return all_paths`.
ReturnAllPaths ==
    /\ gpc = "walking"
    /\ TopEdits # <<>>
    /\ Top.idx > Len(TopEdits)
    /\ Return(Top.all_paths)
    /\ UNCHANGED <<shot_tracks, sequence_edits, start, warned, NotGraph>>

\* ------------------------------------------------------- context resolver

\* Python's None where a string is expected.
NoneStr == "<None>"

\* An optional value: None is the empty tuple, a value its one-element tuple.
None == <<>>

Some(x) == <<x>>

\* Truth value of a string argument (`if task_name:`).
Truthy(str) == str \notin {NoneStr, ""}

\* engine.context.project
EngineProject == "P1"

\* The Asset and Shot rows of the production database. Ids are per entity
\* type: an Asset and a Shot can carry the same id.
SgAssets ==
    {[type |-> "Asset", id |-> 1, project |-> "P1", sg_asset_type |-> "Prop", code |-> "Gun"],
     [type |-> "Asset", id |-> 2, project |-> "P2", sg_asset_type |-> "Prop", code |-> "Car"]}

SgShots ==
    {[type |-> "Shot", id |-> 1, project |-> "P1", scene |-> "sc01", code |-> "sc01_010"],
     [type |-> "Shot", id |-> 2, project |-> "P2", scene |-> "sc02", code |-> "sc02_010"]}

\* The entity dictionary find_one returns, as used in a filter: type and id.
EntityRef(e) == [type |-> e.type, id |-> e.id]

\* The entities tasks are attached to.
TaskEntities ==
    {EntityRef(e) : e \in {a \in SgAssets : TRUE} \cup {x \in SgShots : x.id = 1}}

TaskContents == {"Layout", "Model"}

\* Pipeline-step short names; a task may have no step.
StepNames == {"LAY", "MDL", NoneStr}

\* Arguments the collectors pass.
AssetTypeArgs == {"Prop", "Char"}

AssetArgs == {"Gun", "Car"}

SceneArgs == {"sc01", "sc02"}

ShotArgs == {"sc01_010", "sc02_010"}

TaskNameArgs == TaskContents \cup {NoneStr, ""}

TaskIds == 1..Len(sg_tasks)

ProjectOf(entity) ==
    (CHOOSE e \in SgAssets \cup SgShots : EntityRef(e) = entity).project

\* engine.sgtk.context_from_entity("Task", task_data["id"])
context_from_entity(task_id) ==
    [project |-> ProjectOf(sg_tasks[task_id].entity),
     entity  |-> sg_tasks[task_id].entity,
     step    |-> sg_tasks[task_id].step,
     task    |-> task_id]

\* An Asset lookup that is not scoped to the current project.
FindAssetAnyProject(asset_type, asset) ==
    {a \in SgAssets : a.sg_asset_type = asset_type /\ a.code = asset}

\* find_one("Asset", [project is ctx.project, sg_asset_type is asset_type,
\* code is asset]): the rows it can return.
FindAsset(asset_type, asset) ==
    {a \in SgAssets :
        /\ a.project = EngineProject
        /\ a.sg_asset_type = asset_type
        /\ a.code = asset}

\* find_one("Shot", [project is ctx.project, sg_sequence.Sequence.code is
\* scene, code is shot])
FindShot(scene, shot) ==
    {x \in SgShots :
        /\ x.project = EngineProject
        /\ x.scene = scene
        /\ x.code = shot}

\* find_one("Task", [entity is entity, content is task_name])
FindTaskByContent(entity, task_name) ==
    {t \in TaskIds : sg_tasks[t].entity = entity /\ sg_tasks[t].content = task_name}

\* find_one("Task", [step.Step.short_name is step, entity is entity])
FindTaskByStep(entity, step) ==
    {t \in TaskIds : sg_tasks[t].step = step /\ sg_tasks[t].entity = entity}

\* A task lookup that consults the step first and the hint second.
TaskDataStepFirst(entity, step, task_name) ==
    LET byStep == FindTaskByStep(entity, step)
    IN IF byStep # {} THEN byStep
       ELSE IF Truthy(task_name) THEN FindTaskByContent(entity, task_name) ELSE {}

\* A task lookup that, given a hint, never falls back to the step.
TaskDataNoFallback(entity, step, task_name) ==
    IF Truthy(task_name) THEN FindTaskByContent(entity, task_name)
    ELSE FindTaskByStep(entity, step)

\* The rows task_data can be after both lookups (lines 593-604).
TaskData(entity, step, task_name) ==
    LET byName == IF Truthy(task_name) THEN FindTaskByContent(entity, task_name) ELSE {}
    IN IF byName # {} THEN byName ELSE FindTaskByStep(entity, step)

\* What the resolver returns once the entity lookup returned `found`.
ResolveFrom(found, step, task_name) ==
    IF found = {} THEN {None}
    ELSE UNION {LET task_data == TaskData(EntityRef(e), step, task_name)
                IN IF task_data = {} THEN {None}
                   ELSE {Some(context_from_entity(t)) : t \in task_data}
                : e \in found}

create_asset_context(asset_type, asset, step, task_name) ==
    ResolveFrom(FindAsset(asset_type, asset), step, task_name)

create_shot_context(scene, shot, step, task_name) ==
    ResolveFrom(FindShot(scene, shot), step, task_name)

\* No resolver call is in progress.
NoCall ==
    [fn |-> "none", category |-> "", code |-> "", step |-> NoneStr,
     task_name |-> NoneStr, ret |-> None]

\* A production coordinator adds a task to an entity.
CreateTask(entity, content, step) ==
    /\ rcall = NoCall
    /\ Len(sg_tasks) < MaxTasks
    /\ sg_tasks' = Append(sg_tasks, [entity |-> entity, content |-> content, step |-> step])
    /\ UNCHANGED <<rcall, NotResolve>>

CreateAssetContext(asset_type, asset, step, task_name) ==
    /\ rcall = NoCall
    /\ \E ret \in create_asset_context(asset_type, asset, step, task_name) :
          rcall' = [fn |-> "create_asset_context", category |-> asset_type,
                    code |-> asset, step |-> step, task_name |-> task_name,
                    ret |-> ret]
    /\ UNCHANGED <<sg_tasks, NotResolve>>

\* A resolver that enters a task for the shot before it looks one up.
CreateShotContextEnsuringTask(scene, shot, step, task_name) ==
    /\ rcall = NoCall
    /\ Len(sg_tasks) < MaxTasks
    /\ sg_tasks' = Append(sg_tasks, [entity |-> [type |-> "Shot", id |-> 1],
                                     content |-> task_name, step |-> step])
    /\ \E ret \in create_shot_context(scene, shot, step, task_name) :
          rcall' = [fn |-> "create_shot_context", category |-> scene,
                    code |-> shot, step |-> step, task_name |-> task_name,
                    ret |-> ret]
    /\ UNCHANGED NotResolve

CreateShotContext(scene, shot, step, task_name) ==
    /\ rcall = NoCall
    /\ \E ret \in create_shot_context(scene, shot, step, task_name) :
          rcall' = [fn |-> "create_shot_context", category |-> scene,
                    code |-> shot, step |-> step, task_name |-> task_name,
                    ret |-> ret]
    /\ UNCHANGED <<sg_tasks, NotResolve>>

\* The caller takes the returned value.
ResolverReturn ==
    /\ rcall.fn # "none"
    /\ rcall' = NoCall
    /\ UNCHANGED <<sg_tasks, NotResolve>>

ResolveNext ==
    \/ \E entity \in TaskEntities, content \in TaskContents, step \in StepNames :
          CreateTask(entity, content, step)
    \/ \E asset_type \in AssetTypeArgs, asset \in AssetArgs,
          step \in StepNames, task_name \in TaskNameArgs :
          CreateAssetContext(asset_type, asset, step, task_name)
    \/ \E scene \in SceneArgs, shot \in ShotArgs,
          step \in StepNames, task_name \in TaskNameArgs :
          CreateShotContext(scene, shot, step, task_name)
    \/ ResolverReturn

\* ------------------------------------- version resolver, publish plugins

\* The project and entity of a context, as ctx.to_dict() gives them.
Context(project, entity) == [project |-> project, entity |-> entity]

\* No lookup is in progress.
NoLookup ==
    [fn |-> "none", ctx |-> Context("", [type |-> "", id |-> 0]),
     published_name |-> "", ret |-> None, id |-> 0]

\* The contexts the collected items carry.
ItemContexts ==
    {Context("P1", [type |-> "Shot", id |-> 1]),
     Context("P1", [type |-> "Asset", id |-> 1])}

\* The contexts and published names a lookup can be called with.
LookupContexts ==
    {Context(project, entity) :
        project \in {"P1", "P2"},
        entity \in {[type |-> "Shot", id |-> 1], [type |-> "Asset", id |-> 1]}}

PublishedNames == {"cam", "mov"}

\* Seconds since the epoch: file modification times, and
\* updated_at.timestamp() of a row.
Times == 0..MaxTime

\* published_name = os.path.basename(publish_path).replace(".v001", ""), the
\* path being the publish template applied to the item's name with version 1:
\* the name without its version token.
PublishedName(item) == item.name

PublishIds == 1..Len(sg_publishes)

\* A lookup that is not scoped to the context's project.
MatchingPublishesAnyProject(ctx, published_name) ==
    {p \in PublishIds :
        /\ sg_publishes[p].entity = ctx.entity
        /\ sg_publishes[p].name = published_name}

\* The filters project is, entity is, name is.
MatchingPublishes(ctx, published_name) ==
    {p \in PublishIds :
        /\ sg_publishes[p].project = ctx.project
        /\ sg_publishes[p].entity = ctx.entity
        /\ sg_publishes[p].name = published_name}

\* order=[version_number desc]: the rows that can come first.
FirstByVersionDesc(rows) ==
    {p \in rows : \A q \in rows :
        sg_publishes[q].version_number <= sg_publishes[p].version_number}

\* find_one(..., fields=["version_number", "updated_at"], order=...)
last_published_info(ctx, published_name) ==
    LET rows == MatchingPublishes(ctx, published_name)
    IN IF rows = {} THEN {None}
       ELSE {Some([id |-> p,
                   version_number |-> sg_publishes[p].version_number,
                   updated_at |-> sg_publishes[p].updated_at]) :
                p \in FirstByVersionDesc(rows)}

\* find_one(..., fields=["version_number"], order=...), then
\* `if data: return data.get("version_number")`
last_published_version(ctx, published_name) ==
    LET rows == MatchingPublishes(ctx, published_name)
    IN IF rows = {} THEN {None}
       ELSE {Some(sg_publishes[p].version_number) : p \in FirstByVersionDesc(rows)}

\* A version computation that reuses the latest version.
ValidateVersionNoBump(version) ==
    IF version # None THEN version[1] ELSE 1

\* fields['version'] after validate's lookup: 1, or version + 1.
ValidateVersion(version) ==
    IF version # None THEN version[1] + 1 ELSE 1

\* A staleness check that also rejects an equal modification time.
IsStaleOrEqual(mtime, updated_at) == mtime <= updated_at

\* `os.path.getmtime(movie_path) < updated_at.timestamp()`
IsStale(mtime, updated_at) == mtime < updated_at

\* fields['version'] after accept's lookup: 1, or version_number + 1.
AcceptVersion(info) ==
    IF info # None THEN info[1].version_number + 1 ELSE 1

\* The row the base publish plugin registers for an item: the version is the
\* one of the item's publish path, the row is stamped by the server.
PublishRow(item, updated_at) ==
    [project |-> item.context.project,
     entity |-> item.context.entity,
     name |-> PublishedName(item),
     version_number |-> item.version,
     updated_at |-> updated_at]

\* The server clock: later rows are stamped later.
ServerTime == Len(sg_publishes)

ItemIds == 1..Len(items)

\* The collector creates an item with its context. A movie item has its file
\* on disk, last modified at `mtime`; an actor item has an actor name, which
\* may be empty.
Collect(kind, context, name, mtime) ==
    /\ Len(items) < NumItems
    /\ kind = "actor" => mtime = 0
    /\ kind = "movie" => name # ""
    /\ items' = Append(items, [kind |-> kind, context |-> context, name |-> name,
                                mtime |-> mtime, phase |-> "collected", version |-> 0])
    /\ UNCHANGED <<sg_publishes, lcall, NotPublish>>

\* UnrealActorPublishPlugin.validate, run on an accepted item (its publish
\* template is defined); it can be run again before the publish.
ActorValidate(i) ==
    /\ items[i].kind = "actor"
    /\ items[i].phase \in {"collected", "validated"}
    /\ IF items[i].name = ""
       THEN \* "Actor or name not configured.": return False
            items' = items
       ELSE \E version \in last_published_version(items[i].context, PublishedName(items[i])) :
               items' = [items EXCEPT ![i].version = ValidateVersion(version),
                                      ![i].phase = "validated"]
    /\ UNCHANGED <<sg_publishes, lcall, NotPublish>>

\* UnrealActorPublishPlugin.publish: export, then the base class registers
\* the publish.
ActorPublish(i) ==
    /\ items[i].kind = "actor"
    /\ items[i].phase = "validated"
    /\ sg_publishes' = Append(sg_publishes, PublishRow(items[i], ServerTime))
    /\ items' = [items EXCEPT ![i].phase = "published"]
    /\ UNCHANGED <<lcall, NotPublish>>

\* UnrealMoviePublishPlugin.accept
MovieAccept(i, platform, has_template) ==
    /\ items[i].kind = "movie"
    /\ items[i].phase = "collected"
    /\ IF platform # "win32"
       THEN \* return {"accepted": False}
            items' = [items EXCEPT ![i].phase = "unsupported"]
       ELSE IF ~has_template
       THEN \* publish_template is None: apply_fields raises AttributeError
            items' = [items EXCEPT ![i].phase = "raised"]
       ELSE \E info \in last_published_info(items[i].context, PublishedName(items[i])) :
               IF info # None /\ IsStale(items[i].mtime, info[1].updated_at)
               THEN items' = [items EXCEPT ![i].phase = "rejected"]
               ELSE items' = [items EXCEPT ![i].version = AcceptVersion(info),
                                           ![i].phase = "accepted"]
    /\ UNCHANGED <<sg_publishes, lcall, NotPublish>>

\* UnrealMoviePublishPlugin.validate
MovieValidate(i, isfile) ==
    /\ items[i].kind = "movie"
    /\ items[i].phase \in {"accepted", "validated"}
    /\ items' = IF isfile THEN [items EXCEPT ![i].phase = "validated"] ELSE items
    /\ UNCHANGED <<sg_publishes, lcall, NotPublish>>

\* UnrealMoviePublishPlugin.publish: convert, then the base class registers
\* the publish; the Version entity and the upload follow.
MoviePublish(i) ==
    /\ items[i].kind = "movie"
    /\ items[i].phase = "validated"
    /\ sg_publishes' = Append(sg_publishes, PublishRow(items[i], ServerTime))
    /\ items' = [items EXCEPT ![i].phase = "published"]
    /\ UNCHANGED <<lcall, NotPublish>>

\* Another tool registers a publish, before any item is collected; `limit`
\* is the number of such rows.
ExternalRegister(limit, context, name, version_number) ==
    /\ Len(sg_publishes) < limit
    /\ items = <<>>
    /\ lcall = NoLookup
    /\ sg_publishes' = Append(sg_publishes,
            [project |-> context.project, entity |-> context.entity, name |-> name,
             version_number |-> version_number, updated_at |-> ServerTime])
    /\ UNCHANGED <<items, lcall, NotPublish>>

PublishNext ==
    \/ \E kind \in {"actor", "movie"}, context \in ItemContexts,
          name \in {"cam", ""}, mtime \in Times :
          Collect(kind, context, name, mtime)
    \/ \E i \in ItemIds : ActorValidate(i)
    \/ \E i \in ItemIds : ActorPublish(i)
    \/ \E i \in ItemIds, platform \in {"win32", "linux"}, has_template \in BOOLEAN :
          MovieAccept(i, platform, has_template)
    \/ \E i \in ItemIds, isfile \in BOOLEAN : MovieValidate(i, isfile)
    \/ \E i \in ItemIds : MoviePublish(i)
    \* the one row another tool left before the sessions start
    \/ \E context \in ItemContexts, version_number \in 1..MaxVersion :
          ExternalRegister(1, context, "cam", version_number)

\* A direct call of last_published_info.
LastPublishedInfo(ctx, published_name) ==
    /\ lcall = NoLookup
    /\ \E ret \in last_published_info(ctx, published_name) :
          lcall' = [fn |-> "last_published_info", ctx |-> ctx,
                    published_name |-> published_name,
                    ret |-> IF ret = None THEN None ELSE Some(ret[1].version_number),
                    id |-> IF ret = None THEN 0 ELSE ret[1].id]
    /\ UNCHANGED <<sg_publishes, items, NotPublish>>

\* A direct call of last_published_version.
LastPublishedVersion(ctx, published_name) ==
    /\ lcall = NoLookup
    /\ \E ret \in last_published_version(ctx, published_name) :
          lcall' = [fn |-> "last_published_version", ctx |-> ctx,
                    published_name |-> published_name, ret |-> ret, id |-> 0]
    /\ UNCHANGED <<sg_publishes, items, NotPublish>>

\* The caller takes the returned value.
LookupReturn ==
    /\ lcall # NoLookup
    /\ lcall' = NoLookup
    /\ UNCHANGED <<sg_publishes, items, NotPublish>>

LookupNext ==
    \/ \E context \in LookupContexts, name \in PublishedNames,
          version_number \in 1..MaxVersion :
          ExternalRegister(MaxRecords, context, name, version_number)
    \/ \E ctx \in LookupContexts, published_name \in PublishedNames :
          LastPublishedInfo(ctx, published_name)
    \/ \E ctx \in LookupContexts, published_name \in PublishedNames :
          LastPublishedVersion(ctx, published_name)
    \/ LookupReturn

\* --------------------------------------------------- name and path parsers

\* A Python string is the sequence of its characters.
Empty == <<>>

\* str.split(sep, maxsplit): `acc` holds the pieces found so far, the last
\* one being the piece under construction.
RECURSIVE SplitFrom(_, _, _, _, _)
SplitFrom(str, sep, maxsplit, i, acc) ==
    IF i > Len(str) THEN acc
    ELSE IF str[i] = sep /\ Len(acc) <= maxsplit
         THEN SplitFrom(str, sep, maxsplit, i + 1, Append(acc, Empty))
         ELSE SplitFrom(str, sep, maxsplit, i + 1,
                        [acc EXCEPT ![Len(acc)] = Append(@, str[i])])

SplitMax(str, sep, maxsplit) == SplitFrom(str, sep, maxsplit, 1, <<Empty>>)

\* str.split(sep)
Split(str, sep) == SplitMax(str, sep, Len(str))

\* sep.join(parts)
RECURSIVE Join(_, _)
Join(sep, parts) ==
    IF Len(parts) = 0 THEN Empty
    ELSE IF Len(parts) = 1 THEN parts[1]
    ELSE parts[1] \o <<sep>> \o Join(sep, Tail(parts))

\* str.rstrip(chars): drops every trailing character that is in `chars`.
RECURSIVE RStrip(_, _)
RStrip(str, chars) ==
    IF Len(str) > 0 /\ str[Len(str)] \in chars
    THEN RStrip(SubSeq(str, 1, Len(str) - 1), chars)
    ELSE str

\* seq[a:b] (0 <= a <= b)
Slice(seq, a, b) == SubSeq(seq, a + 1, IF b < Len(seq) THEN b ELSE Len(seq))

UpperCase ==
    <<"A", "B", "C", "D", "E", "F", "G", "H", "I", "J", "K", "L", "M",
      "N", "O", "P", "Q", "R", "S", "T", "U", "V", "W", "X", "Y", "Z">>

LowerCase ==
    <<"a", "b", "c", "d", "e", "f", "g", "h", "i", "j", "k", "l", "m",
      "n", "o", "p", "q", "r", "s", "t", "u", "v", "w", "x", "y", "z">>

\* str.lower()
Lower(str) ==
    [i \in 1..Len(str) |->
        IF \E k \in 1..Len(UpperCase) : UpperCase[k] = str[i]
        THEN LowerCase[CHOOSE k \in 1..Len(UpperCase) : UpperCase[k] = str[i]]
        ELSE str[i]]

\* Index of the last occurrence of a character of `chars`, 0 when none.
RECURSIVE LastIndex(_, _, _)
LastIndex(str, chars, i) ==
    IF i = 0 THEN 0
    ELSE IF str[i] \in chars THEN i
    ELSE LastIndex(str, chars, i - 1)

\* os.path.basename(path)
basename(path) ==
    SubSeq(path, LastIndex(path, {"/"}, Len(path)) + 1, Len(path))

\* os.path.splitext(path): the extension starts at the last dot of the
\* basename, leading dots of the basename aside.
splitext(path) ==
    LET sepIndex == LastIndex(path, {"/"}, Len(path))
        dotIndex == LastIndex(path, {"."}, Len(path))
        hasExt == /\ dotIndex > sepIndex
                  /\ \E i \in (sepIndex + 1)..(dotIndex - 1) : path[i] # "."
    IN IF hasExt
       THEN <<SubSeq(path, 1, dotIndex - 1), SubSeq(path, dotIndex, Len(path))>>
       ELSE <<path, Empty>>

\* The words the identifiers of a project are made of.
Game == <<"G", "a", "m", "e">>

Assets == <<"A", "s", "s", "e", "t", "s">>

Scenes == <<"S", "c", "e", "n", "e", "s">>

assets == <<"a", "s", "s", "e", "t", "s">>

scenes == <<"s", "c", "e", "n", "e", "s">>

GAME == <<"G", "A", "M", "E">>

ASSETS == <<"A", "S", "S", "E", "T", "S">>

SCENES == <<"S", "C", "E", "N", "E", "S">>

Prop == <<"P", "r", "o", "p">>

SM_Gun == <<"S", "M", "_", "G", "u", "n">>

sc01 == <<"s", "c", "0", "1">>

n010 == <<"0", "1", "0">>

sc01_010 == sc01 \o <<"_">> \o n010

LAY == <<"L", "A", "Y">>

MDL == <<"M", "D", "L">>

LGT == <<"L", "G", "T">>

Lighting == <<"L", "i", "g", "h", "t", "i", "n", "g">>

Comp == <<"C", "o", "m", "p">>

previs == <<"p", "r", "e", "v", "i", "s">>

sub == <<"s", "u", "b">>

render == <<"r", "e", "n", "d", "e", "r">>

\* The outcome of a call: an exception, or a returned value (None or a tuple).
Returns(value) == [raised |-> FALSE, value |-> Some(value)]

ReturnsNone == [raised |-> FALSE, value |-> None]

Raises == [raised |-> TRUE, value |-> None]

\* An asset-path parser whose default step is the layout stage.
ctx_from_asset_path_lay(path) ==
    LET splitted == Split(path, "/")
    IN IF Slice(splitted, 0, 3) \in {<<Empty, Game, Assets>>, <<Empty, Game, assets>>}
       THEN IF Len(splitted) >= 6
            THEN Returns(<<splitted[4], splitted[5], splitted[6]>>)
            ELSE IF Len(splitted) = 5
            THEN Returns(<<splitted[4], splitted[5], LAY>>)
            ELSE Raises
       ELSE ReturnsNone

\* ctx_from_asset_path(path). With the marker matched and fewer than five
\* pieces neither branch binds the three names and line 413 raises
\* UnboundLocalError.
ctx_from_asset_path(path) ==
    LET splitted == Split(path, "/")
    IN IF Slice(splitted, 0, 3) \in {<<Empty, Game, Assets>>, <<Empty, Game, assets>>}
       THEN IF Len(splitted) >= 6
            THEN Returns(<<splitted[4], splitted[5], splitted[6]>>)
            ELSE IF Len(splitted) = 5
            THEN Returns(<<splitted[4], splitted[5], MDL>>)
            ELSE Raises
       ELSE ReturnsNone

\* A shot-path parser that unpacks the pieces of a path of two trailing
\* pieces: the unpacking raises ValueError.
ctx_from_shot_path_short(path) ==
    LET splitted == Split(path, "/")
    IN IF /\ Slice(splitted, 0, 3) \in {<<Empty, Game, Scenes>>, <<Empty, Game, scenes>>}
          /\ Len(splitted) >= 5
       THEN IF Len(splitted) >= 6
            THEN Returns(<<splitted[4], splitted[5], splitted[6]>>)
            ELSE Raises
       ELSE ReturnsNone

\* A shot-path parser that takes paths of exactly three trailing pieces only.
ctx_from_shot_path_exact(path) ==
    LET splitted == Split(path, "/")
    IN IF /\ Slice(splitted, 0, 3) \in {<<Empty, Game, Scenes>>, <<Empty, Game, scenes>>}
          /\ Len(splitted) = 6
       THEN Returns(<<splitted[4], splitted[5], splitted[6]>>)
       ELSE ReturnsNone

\* ctx_from_shot_path(path)
ctx_from_shot_path(path) ==
    LET splitted == Split(path, "/")
    IN IF /\ Slice(splitted, 0, 3) \in {<<Empty, Game, Scenes>>, <<Empty, Game, scenes>>}
          /\ Len(splitted) >= 6
       THEN Returns(<<splitted[4], splitted[5], splitted[6]>>)
       ELSE ReturnsNone

\* ctx_from_movie_path(path): the extension is split off and not looked at.
ctx_from_movie_path(path) ==
    LET name == Split(basename(path), ".")[1]
        splitted == SplitMax(name, "_", 2)
        scene == splitted[1]
        shot == Join("_", Slice(splitted, 0, 2))
    IN IF Len(splitted) < 2 THEN ReturnsNone
       ELSE IF Len(splitted) >= 3
       THEN Returns(<<scene, shot, LGT, splitted[3]>>)
       ELSE Returns(<<scene, shot, LGT, Lighting>>)

\* ctx_from_sequence(seq), on the name seq.get_name() reports.
ctx_from_sequence(seq_name) ==
    LET l == Split(RStrip(seq_name, {"_", "s", "u", "b"}), "_")
    IN IF Len(l) # 3 THEN ReturnsNone
       ELSE Returns(<<l[1], Join("_", <<l[1], l[2]>>), l[3]>>)

\* ctx_from_level(level), on the path level.get_path_name() reports: the
\* unpacking of fewer than three pieces raises inside the try block.
ctx_from_level(path) ==
    LET pieces == Slice(Split(path, "/"), 3, 6)
    IN IF Len(pieces) = 3 THEN Returns(pieces) ELSE ReturnsNone

\* ---- the identifiers the parsers are called on

SeqsUpTo(S, n) == UNION {[1..k -> S] : k \in 0..n}

\* The first three pieces of a path: rooted with every spelling of the two
\* markers, and one relative path.
PathHeads ==
    {<<Empty, b, c>> : b \in {Game, Lower(Game), GAME},
                       c \in {Assets, assets, ASSETS, Scenes, scenes, SCENES}}
    \cup {<<Prop, Game, Assets>>, <<sc01, Game, Scenes>>}

\* Paths of up to MaxTail further pieces, with and without a trailing slash.
PathsOver(heads, tailPieces) ==
    {Join("/", pieces) :
        pieces \in {<<Empty>>, <<Empty, Game>>} \cup
                   {h \o t \o e : h \in heads,
                                  t \in SeqsUpTo(tailPieces, MaxTail),
                                  e \in {<<>>, <<Empty>>}}}

AssetPaths ==
    PathsOver({h \in PathHeads : h[3] # SCENES /\ h[3] # scenes /\ h[1] # sc01},
              {Prop, SM_Gun, LAY})

ShotPaths ==
    PathsOver({h \in PathHeads : h[3] # ASSETS /\ h[3] # assets /\ h[1] # Prop},
              {sc01, sc01_010, LAY})

SequenceNames ==
    {Join("_", tokens) :
        tokens \in SeqsUpTo({sc01, n010, LAY, previs, sub}, MaxParts) \ {<<>>}}

MovieExts ==
    {Empty, <<".", "m", "o", "v">>, <<".", "M", "O", "V">>, <<".", "t", "x", "t">>,
     <<".", "v", "0", "0", "1", ".", "m", "o", "v">>}

MovieNames ==
    {Join("_", tokens) \o ext :
        tokens \in SeqsUpTo({sc01, n010, Comp}, MaxParts) \ {<<>>}, ext \in MovieExts}

MoviePaths == MovieNames \cup {render \o <<"/">> \o name : name \in MovieNames}

\* ---- the calls

NoParse == [fn |-> "none", arg |-> Empty, ret |-> ReturnsNone]

ParserCall(fn, arg, ret) ==
    /\ pcall = NoParse
    /\ pcall' = [fn |-> fn, arg |-> arg, ret |-> ret]
    /\ UNCHANGED NotParse

CtxFromAssetPath(path) ==
    ParserCall("ctx_from_asset_path", path, ctx_from_asset_path(path))

CtxFromShotPath(path) ==
    ParserCall("ctx_from_shot_path", path, ctx_from_shot_path(path))

CtxFromMoviePath(path) ==
    ParserCall("ctx_from_movie_path", path, ctx_from_movie_path(path))

CtxFromSequence(seq_name) ==
    ParserCall("ctx_from_sequence", seq_name, ctx_from_sequence(seq_name))

CtxFromLevel(path) ==
    ParserCall("ctx_from_level", path, ctx_from_level(path))

\* The caller takes the outcome.
ParserReturn ==
    /\ pcall.fn # "none"
    /\ pcall' = NoParse
    /\ UNCHANGED NotParse

ParseNext ==
    \/ pcall = NoParse /\ \E path \in AssetPaths : CtxFromAssetPath(path)
    \/ pcall = NoParse /\ \E path \in ShotPaths : CtxFromShotPath(path)
    \/ pcall = NoParse /\ \E path \in MoviePaths : CtxFromMoviePath(path)
    \/ pcall = NoParse /\ \E seq_name \in SequenceNames : CtxFromSequence(seq_name)
    \/ pcall = NoParse /\ \E path \in ShotPaths : CtxFromLevel(path)
    \/ ParserReturn

\* ------------------------------------------- collection of rendered movies

DotMov == <<".", "m", "o", "v">>

DotExr == <<".", "e", "x", "r">>

clip == <<"c", "l", "i", "p">>

\* The name the production database knows a parsed token by; a token the
\* database has no row for is unknown to every query.
Text(str) ==
    CASE str = sc01 -> "sc01"
      [] str = sc01_010 -> "sc01_010"
      [] str = LGT -> "LGT"
      [] str = LAY -> "LAY"
      [] str = MDL -> "MDL"
      [] str = Prop -> "Prop"
      [] str = <<"G", "u", "n">> -> "Gun"
      [] OTHER -> "?"

\* os.path.join(dirpath, name)
PathJoin(dirpath, name) == dirpath \o <<"/">> \o name

\* movies_dir
MoviesDir == render

\* What the handling of one file or directory comes to.
Skipped == [kind |-> "skipped", item |-> None]

Raised == [kind |-> "raised", item |-> None]

Created(item) == [kind |-> "created", item |-> Some(item)]

\* The contexts lines 446-448 (511-513) can end with: the context of the
\* parsed step and, when there is none, the context of the step "LAY".
ShotContexts(scene, shot, step) ==
    LET first == create_shot_context(Text(scene), Text(shot), Text(step), NoneStr)
    IN (first \ {None}) \cup
       (IF None \in first
        THEN create_shot_context(Text(scene), Text(shot), "LAY", NoneStr)
        ELSE {})

\* Lines 442-464 (507-529): `scene, shot, step = ctx` raises ValueError on
\* a tuple that does not have three elements.
ItemFromCtx(item_type, path, name, ctx) ==
    IF ctx.value = None THEN {Skipped}
    ELSE IF Len(ctx.value[1]) # 3 THEN {Raised}
    ELSE {IF context = None THEN Skipped
          ELSE Created([type |-> item_type, context |-> context[1],
                        movie_path |-> path, name |-> splitext(name)[1]])
          : context \in ShotContexts(ctx.value[1][1], ctx.value[1][2],
                                     ctx.value[1][3])}

\* create_rendered_movie_item(parent_item, movie_path)
create_rendered_movie_item(movie_path) ==
    IF Lower(splitext(movie_path)[2]) # DotMov THEN {Skipped}
    ELSE ItemFromCtx("unreal.render.mov", movie_path, basename(movie_path),
                     ctx_from_movie_path(movie_path))

\* str.startswith(prefix)
StartsWith(str, prefix) ==
    Len(str) >= Len(prefix) /\ SubSeq(str, 1, Len(prefix)) = prefix

\* find_first_seuence_file(seq_dir_path, ext='.exr'), on the directory's
\* own files in the order os.walk lists them.
find_first_seuence_file(seq_dir_path, filenames) ==
    IF filenames = <<>> THEN None
    ELSE IF Lower(splitext(filenames[1])[2]) # DotExr THEN None
    ELSE IF ~StartsWith(filenames[1], basename(seq_dir_path)) THEN None
    ELSE Some(PathJoin(seq_dir_path, filenames[1]))

Digits == {"0", "1", "2", "3", "4", "5", "6", "7", "8", "9"}

\* filename_as_sequence_pattern(filename) raises: there is no piece before
\* the last one, or int() rejects it (the frames here carry no sign, blank
\* or underscore).
PatternRaises(filename) ==
    LET splitted == Split(filename, ".")
        frame == splitted[Len(splitted) - 1]
    IN \/ Len(splitted) < 2
       \/ frame = Empty
       \/ \E i \in 1..Len(frame) : frame[i] \notin Digits

\* create_rendered_exr_sequence_item(parent_item, seq_dir_path)
create_rendered_exr_sequence_item(seq_dir_path, filenames) ==
    LET first == find_first_seuence_file(seq_dir_path, filenames)
    IN IF first = None THEN {Skipped}
       ELSE IF PatternRaises(first[1]) THEN {Skipped}
       ELSE ItemFromCtx("unreal.render.exr", seq_dir_path, basename(seq_dir_path),
                        ctx_from_movie_path(seq_dir_path))

\* ---- the render folder

RenderFileNames ==
    {sc01_010 \o DotMov,
     sc01_010 \o <<"_">> \o Comp \o DotMov,
     clip \o DotMov,
     clip \o <<".", "t", "x", "t">>}

RenderDirNames == {sc01_010, clip}

\* The files a directory of the render folder can hold.
DirListings ==
    {<<>>,
     <<sc01_010 \o <<".", "0", "0", "0", "1">> \o DotExr>>,
     <<sc01_010 \o DotExr>>,
     <<clip \o <<".", "t", "x", "t">>>>}

\* A render writes a file into the render folder.
AddRenderFile(name) ==
    /\ cpc = "listing"
    /\ Len(render_files) < MaxFiles
    /\ name \notin Range(render_files)
    /\ render_files' = Append(render_files, name)
    /\ UNCHANGED <<render_dirs, cpc, cpos, movie_items, NotCollect>>

\* A render writes an image-sequence directory into the render folder.
AddRenderDir(name, filenames) ==
    /\ cpc = "listing"
    /\ Len(render_dirs) < MaxDirs
    /\ \A i \in 1..Len(render_dirs) : render_dirs[i].name # name
    /\ render_dirs' = Append(render_dirs, [name |-> name, filenames |-> filenames])
    /\ UNCHANGED <<render_files, cpc, cpos, movie_items, NotCollect>>

\* Where the walk stands once `done_files` files and `done_dirs`
\* directories are handled.
WalkPhase(done_files, done_dirs) ==
    IF done_files < Len(render_files) THEN "files"
    ELSE IF done_dirs < Len(render_dirs) THEN "dirs"
    ELSE "done"

\* collect_rendered_movies(parent_item): os.walk lists the folder.
CollectRenderedMovies ==
    /\ cpc = "listing"
    /\ cpc' = WalkPhase(0, 0)
    /\ cpos' = 1
    /\ movie_items' = <<>>
    /\ UNCHANGED <<render_files, render_dirs, NotCollect>>

\* The outcome of one handling: an exception leaves the loops and the
\* collector, anything else moves to the next file or directory.
Handle(outcome, done_files, done_dirs) ==
    /\ IF outcome.kind = "raised"
       THEN cpc' = "raised" /\ UNCHANGED cpos
       ELSE /\ cpc' = WalkPhase(done_files, done_dirs)
            /\ cpos' = IF cpc = "files" /\ done_files = Len(render_files)
                       THEN 1 ELSE cpos + 1
    /\ movie_items' = IF outcome.kind = "created"
                      THEN Append(movie_items, outcome.item[1])
                      ELSE movie_items
    /\ UNCHANGED <<render_files, render_dirs, NotCollect>>

\* One turn of `for f in filenames` (lines 408-410).
CreateRenderedMovieItem ==
    /\ cpc = "files"
    /\ \E outcome \in create_rendered_movie_item(PathJoin(MoviesDir, render_files[cpos])) :
          Handle(outcome, cpos, 0)

\* One turn of `for d in dirnames` (lines 412-414).
CreateRenderedExrSequenceItem ==
    /\ cpc = "dirs"
    /\ \E outcome \in create_rendered_exr_sequence_item(
                          PathJoin(MoviesDir, render_dirs[cpos].name),
                          render_dirs[cpos].filenames) :
          Handle(outcome, Len(render_files), cpos)

\* The tasks of the shots of the project, entered before the collection.
CollectNext ==
    \/ cpc = "listing" /\ \E step \in {"LAY", "LGT"} :
          CreateTask([type |-> "Shot", id |-> 1], "Layout", step)
    \/ \E name \in RenderFileNames : AddRenderFile(name)
    \/ \E name \in RenderDirNames, filenames \in DirListings :
          AddRenderDir(name, filenames)
    \/ CollectRenderedMovies
    \/ CreateRenderedMovieItem
    \/ CreateRenderedExrSequenceItem

\* ------------------------------------------------- version-suffix functions
\* get_version, set_version and up_version, as unreal_utils.py holds them
\* (lines 374-400).

Shot == <<"S", "h", "o", "t">>

\* The separator ' v' of the version suffix.
SpaceV == <<" ", "v">>

\* The largest position i <= k at which `sep` occurs in `str`; 0 when none.
RECURSIVE LastOccurrence(_, _, _)
LastOccurrence(str, sep, k) ==
    IF k < 1 THEN 0
    ELSE IF SubSeq(str, k, k + Len(sep) - 1) = sep THEN k
    ELSE LastOccurrence(str, sep, k - 1)

\* str.rpartition(sep): (head, sep, tail) at the last occurrence of sep,
\* ('', '', str) when there is none.
rpartition(str, sep) ==
    LET i == LastOccurrence(str, sep, Len(str) - Len(sep) + 1)
    IN IF i = 0 THEN <<Empty, Empty, str>>
       ELSE <<SubSeq(str, 1, i - 1), sep, SubSeq(str, i + Len(sep), Len(str))>>

DigitChars == <<"0", "1", "2", "3", "4", "5", "6", "7", "8", "9">>

IsDigit(c) == \E d \in 1..Len(DigitChars) : DigitChars[d] = c

DigitValue(c) == (CHOOSE d \in 1..Len(DigitChars) : DigitChars[d] = c) - 1

\* int(str) raises ValueError (the names here carry no sign, blank or
\* underscore in the version).
IntRaises(str) == str = Empty \/ \E i \in 1..Len(str) : ~IsDigit(str[i])

\* int(str) on a string of digits: leading zeros do not count.
RECURSIVE IntOf(_)
IntOf(str) ==
    IF str = Empty THEN 0
    ELSE 10 * IntOf(SubSeq(str, 1, Len(str) - 1)) + DigitValue(str[Len(str)])

\* The decimal digits of a natural number, as f"{n}" writes them.
RECURSIVE Decimal(_)
Decimal(n) ==
    IF n < 10 THEN <<DigitChars[n + 1]>>
    ELSE Decimal(n \div 10) \o <<DigitChars[(n % 10) + 1]>>

\* get_version(name)
get_version(name) ==
    LET parts == rpartition(name, SpaceV)
    IN IF parts[2] = Empty THEN Returns(0)
       ELSE IF IntRaises(parts[3]) THEN ReturnsNone
       ELSE Returns(IntOf(parts[3]))

\* set_version(name, ver), ver an integer
set_version(name, ver) ==
    LET parts == rpartition(name, SpaceV)
    IN IF parts[2] # Empty THEN Returns(parts[1] \o SpaceV \o Decimal(ver))
       ELSE Returns(name \o SpaceV \o Decimal(ver))

\* up_version(name): int(ver) is not guarded.
up_version(name) ==
    LET parts == rpartition(name, SpaceV)
    IN IF parts[2] = Empty THEN Returns(name \o SpaceV \o Decimal(0 + 1))
       ELSE IF IntRaises(parts[3]) THEN Raises
       ELSE Returns(parts[1] \o SpaceV \o Decimal(IntOf(parts[3]) + 1))

\* Names with and without a version suffix, well-formed or not.
VersionedNames ==
    {base \o suffix :
        base \in {Shot, Empty, Shot \o SpaceV \o <<"1">>},
        suffix \in {Empty} \cup
                   {SpaceV \o d : d \in SeqsUpTo({"0", "2", "9", "a"}, MaxDigits)}}

NoVersionCall == [fn |-> "none", arg |-> Empty, ver |-> 0, ret |-> ReturnsNone]

VersionCall(fn, name, ver, ret) ==
    /\ vcall = NoVersionCall
    /\ vcall' = [fn |-> fn, arg |-> name, ver |-> ver, ret |-> ret]
    /\ UNCHANGED NotVersion

GetVersion(name) == VersionCall("get_version", name, 0, get_version(name))

SetVersion(name, ver) == VersionCall("set_version", name, ver, set_version(name, ver))

UpVersion(name) == VersionCall("up_version", name, 0, up_version(name))

\* The caller takes the outcome.
VersionReturn ==
    /\ vcall.fn # "none"
    /\ vcall' = NoVersionCall
    /\ UNCHANGED NotVersion

VersionNext ==
    \/ vcall = NoVersionCall /\ \E name \in VersionedNames : GetVersion(name)
    \/ vcall = NoVersionCall /\ \E name \in VersionedNames, ver \in {1, 10} :
          SetVersion(name, ver)
    \/ vcall = NoVersionCall /\ \E name \in VersionedNames : UpVersion(name)
    \/ VersionReturn

\* ------------------------------------------------ creation of publish items

Gun == <<"G", "u", "n">>

camera == <<"c", "a", "m", "e", "r", "a">>

\* `needle in str`
Contains(str, needle) ==
    \E i \in 1..(Len(str) - Len(needle) + 1) :
        SubSeq(str, i, i + Len(needle) - 1) = needle

\* os.path.dirname(path): the head up to the last slash, its trailing
\* slashes dropped unless it holds nothing else.
dirname(path) ==
    LET head == SubSeq(path, 1, LastIndex(path, {"/"}, Len(path)))
    IN IF \E i \in 1..Len(head) : head[i] # "/" THEN RStrip(head, {"/"}) ELSE head

\* item.context: the context an item inherits from its parent, the one of
\* the session.
InheritedContext ==
    [project |-> EngineProject, entity |-> [type |-> "", id |-> 0],
     step |-> NoneStr, task |-> 0]

\* What a create_*_item call comes to: the item's properties["context"]
\* (None while unset) and whether the call returned.
ItemOutcome(context, returned) == [context |-> context, returned |-> returned]

\* Lines 203-215, 288-303, 376-388: the resolver's context, the item's own
\* one when the resolver returns None.
ContextOrInherited(contexts) ==
    {ItemOutcome(IF context = None THEN Some(InheritedContext) ELSE context, TRUE)
     : context \in contexts}

\* create_asset_item(parent_item, asset_path, ...): the item exists before
\* the path is parsed; an exception of the parser leaves the function with
\* the property unset.
create_asset_item(asset_path) ==
    LET ctx == ctx_from_asset_path(dirname(asset_path))
    IN IF ctx.raised THEN {ItemOutcome(None, FALSE)}
       ELSE IF ctx.value = None THEN {ItemOutcome(Some(InheritedContext), TRUE)}
       ELSE ContextOrInherited(
                create_asset_context(Text(ctx.value[1][1]), Text(ctx.value[1][2]),
                                     Text(ctx.value[1][3]), NoneStr))

\* create_actor_item(parent_item, actor, actor_type, binding, actor_name):
\* `binding` is the name of the binding's sequence or None, `level_path` the
\* path of the actor's level.
create_actor_item(binding, level_path, actor_name) ==
    LET ctx == IF binding # None THEN ctx_from_sequence(binding[1])
               ELSE ctx_from_level(level_path)
        task_name == IF Contains(Lower(actor_name), camera) THEN "Camera" ELSE NoneStr
    IN IF ctx.value = None THEN {ItemOutcome(Some(InheritedContext), TRUE)}
       ELSE ContextOrInherited(
                create_shot_context(Text(ctx.value[1][1]), Text(ctx.value[1][2]),
                                    Text(ctx.value[1][3]), task_name))

\* Lines 371-374: the first binding whose sequence name parses decides.
RECURSIVE FirstCtx(_, _)
FirstCtx(bindings, i) ==
    IF i > Len(bindings) THEN ReturnsNone
    ELSE IF ctx_from_sequence(bindings[i]).value # None
    THEN ctx_from_sequence(bindings[i])
    ELSE FirstCtx(bindings, i + 1)

\* create_movie_scene_folder_item(parent_item, folder, folder_name), for a
\* folder that has bindings (without any the function returns before it
\* creates an item).
create_movie_scene_folder_item(bindings) ==
    LET ctx == FirstCtx(bindings, 1)
    IN IF ctx.value = None THEN {ItemOutcome(Some(InheritedContext), TRUE)}
       ELSE ContextOrInherited(
                create_shot_context(Text(ctx.value[1][1]), Text(ctx.value[1][2]),
                                    Text(ctx.value[1][3]), NoneStr))

\* ---- the selection

\* Object paths of selected assets.
AssetObjectPaths ==
    {Join("/", pieces) \o <<".">> \o Gun :
        pieces \in {<<Empty, Game, Assets, Prop, Gun, Gun>>,
                    <<Empty, Game, Assets, Prop, SM_Gun, SM_Gun>>,
                    <<Empty, Game, Assets, Prop, Gun>>,
                    <<Empty, Game, Assets, Gun>>,
                    <<Empty, Game, Scenes, sc01, Gun>>,
                    <<Empty, Game, Gun>>}}

BindingSequenceNames ==
    {Join("_", <<sc01, n010, LAY>>), Join("_", <<sc01, n010>>)}

LevelPaths ==
    {Join("/", <<Empty, Game, Scenes, sc01, sc01_010, LAY, sc01_010>>),
     Join("/", <<Empty, Game, Scenes>>)}

ActorNames == {<<"C", "i", "n", "e">> \o <<"C">> \o SubSeq(camera, 2, 6), <<"C", "u", "b", "e">>}

NoArgs == [path |-> Empty, binding |-> None, actor_name |-> Empty, bindings |-> <<>>]

\* The running collection has not been left by an exception.
Collecting ==
    /\ Len(session_items) < MaxSessionItems
    /\ \A i \in 1..Len(session_items) : session_items[i].returned

AddItem(kind, args, outcome) ==
    /\ session_items' = Append(session_items,
          [kind |-> kind, args |-> args,
           context |-> outcome.context, returned |-> outcome.returned])
    /\ UNCHANGED <<seq_items, NotItems>>

CreateAssetItem(asset_path) ==
    /\ Collecting
    /\ \E outcome \in create_asset_item(asset_path) :
          AddItem("asset", [NoArgs EXCEPT !.path = asset_path], outcome)

CreateActorItem(binding, level_path, actor_name) ==
    /\ Collecting
    /\ \E outcome \in create_actor_item(binding, level_path, actor_name) :
          AddItem("actor", [NoArgs EXCEPT !.binding = binding, !.path = level_path,
                                          !.actor_name = actor_name], outcome)

CreateMovieSceneFolderItem(bindings) ==
    /\ Collecting
    /\ bindings # <<>>
    /\ \E outcome \in create_movie_scene_folder_item(bindings) :
          AddItem("folder", [NoArgs EXCEPT !.bindings = bindings], outcome)

\* The tasks of the project, entered before the collection.
ItemTasks ==
    {<<[type |-> "Asset", id |-> 1], "Model", "MDL">>,
     <<[type |-> "Shot", id |-> 1], "Layout", "LAY">>,
     <<[type |-> "Shot", id |-> 1], "Camera", "LGT">>}

ItemsNext ==
    \/ session_items = <<>> /\ \E t \in ItemTasks : CreateTask(t[1], t[2], t[3])
    \/ \E asset_path \in AssetObjectPaths : CreateAssetItem(asset_path)
    \/ \E binding \in {None} \cup {Some(n) : n \in BindingSequenceNames},
          level_path \in LevelPaths, actor_name \in ActorNames :
          CreateActorItem(binding, level_path, actor_name)
    \/ \E bindings \in SeqsUpTo(BindingSequenceNames, 2) :
          CreateMovieSceneFolderItem(bindings)

\* ---- collect_level_sequence

\* edits_path.reverse()
Reverse(path) == [i \in 1..Len(path) |-> path[Len(path) + 1 - i]]

\* get_path_name() of the level sequences: the first one lies directly under
\* the assets root, the others in a scene folder.
SeqPathName(s) ==
    IF s = 1 THEN Join("/", <<Empty, Game, Assets, Gun>>) \o <<".">> \o Gun
    ELSE Join("/", <<Empty, Game, Scenes, sc01, sc01_010>>) \o <<".">> \o sc01_010

\* One turn of the loop over the paths get_all_paths_from_sequence returned
\* (`result` keeps them as returned): the path is reversed, an item is
\* created for its first sequence, and the path is stored on the item. An
\* exception of create_asset_item ends the loop before the path is stored.
CollectLevelSequenceItem ==
    /\ gpc = "done"
    /\ Len(seq_items) < Len(result)
    /\ \A i \in 1..Len(seq_items) : seq_items[i].returned
    /\ LET edits_path == Reverse(result[Len(seq_items) + 1])
       IN \E outcome \in create_asset_item(SeqPathName(edits_path[1])) :
             seq_items' = Append(seq_items,
                [edits_path |-> IF outcome.returned THEN Some(edits_path) ELSE None,
                 context |-> outcome.context, returned |-> outcome.returned])
    /\ UNCHANGED <<gvars, session_items, rvars, pvars, xvars, cvars, nvars,
                   avars, evars, svars>>

GraphNext ==
    \/ \E parent \in Seqs, child \in SectionTargets : AddSection(parent, child)
    \/ RetrieveSequenceEdits
    \/ \E s \in Seqs : CallGetAllPaths(s)
    \/ ReturnSingle
    \/ DetectCycle
    \/ Recurse
    \/ ReturnAllPaths
    \/ CollectLevelSequenceItem

\* --------------------------------------------------------- loader actions

ImportNames ==
    {"import_fbx_camera", "import_fbx", "import_alembic",
     "import_alembic_camera", "import_vdb"}

\* The entries of the list, by what decides their outcome: the action's
\* name, whether the publish has a path and the file is on disk, and what
\* the base class's execute_action does with a name it is handed.
ActionEntries ==
    [name : {"import_fbx", "import_alembic_camera"},
     path : {"on disk", "not on disk", "unresolved"}, base : {"returns"}]
    \cup [name : {"reference"}, path : {"on disk"},
          base : {"returns", "AttributeError", "Exception"}]
    \cup [name : {"reference"}, path : {"unresolved"}, base : {"returns"}]

\* _import_to_content_browser(path, sg_publish_data, action_name) raises
\* when the file is not on disk.
import_to_content_browser_raises(single_action) ==
    single_action.path = "not on disk"

\* execute_action(name, params, sg_publish_data) raises: get_publish_path
\* cannot resolve the path, the import raises, or the base class raises
\* anything but AttributeError.
execute_action_raises(single_action) ==
    \/ single_action.path = "unresolved"
    \/ /\ single_action.name \in ImportNames
       /\ import_to_content_browser_raises(single_action)
    \/ /\ single_action.name \notin ImportNames
       /\ single_action.base = "Exception"

\* execute_multiple_actions(actions) is called.
ExecuteMultipleActions(action_list) ==
    /\ lpc = "idle"
    /\ actions' = action_list
    /\ apos' = 1
    /\ executed' = <<>>
    /\ lpc' = "running"
    /\ UNCHANGED NotLoader

\* A loop that catches what execute_action raises and goes on.
ExecuteActionAndGoOn ==
    /\ lpc = "running"
    /\ apos <= Len(actions)
    /\ executed' = Append(executed, apos)
    /\ apos' = apos + 1
    /\ UNCHANGED <<actions, lpc, NotLoader>>

\* One turn of the loop: execute_action on the entry at the position; what
\* it raises leaves the loop and the function.
ExecuteAction ==
    /\ lpc = "running"
    /\ apos <= Len(actions)
    /\ executed' = Append(executed, apos)
    /\ IF execute_action_raises(actions[apos])
       THEN lpc' = "raised" /\ apos' = apos
       ELSE lpc' = lpc /\ apos' = apos + 1
    /\ UNCHANGED <<actions, NotLoader>>

\* The list is exhausted: the function returns.
ExecuteMultipleActionsReturn ==
    /\ lpc = "running"
    /\ apos > Len(actions)
    /\ lpc' = "done"
    /\ UNCHANGED <<actions, apos, executed, NotLoader>>

LoaderNext ==
    \/ lpc = "idle" /\ \E action_list \in SeqsUpTo(ActionEntries, MaxActions) :
          ExecuteMultipleActions(action_list)
    \/ ExecuteAction
    \/ ExecuteMultipleActionsReturn

\* ----------------------------------------------------------- menu commands

PublishCommand == "Publish..."

PublishRenderedMovies == "Publish rendered movies..."

PanelCommands == {"Shotgun Panel...", "ShotGrid Panel..."}

\* The names a toolkit app registers a command under.
RegisteredNames == {PublishCommand, "ShotGrid Panel...", "Work Area Info..."}

\* The names the menu hands to execute_command.
MenuNames == RegisteredNames \cup {PublishRenderedMovies, "Shotgun Panel...", "Reload"}

\* What running a callback comes to: it returns, raises an Exception, or
\* raises a BaseException that is no Exception (SystemExit).
CallbackOutcomes == {"returns", "Exception", "SystemExit"}

NoCommand ==
    [command_name |-> "", commands |-> {}, callback |-> None, outcome |-> "",
     runs |-> 0, logged |-> 0, propagated |-> FALSE]

\* `if command_name == "Publish rendered movies...": ... command_name = "Publish..."`
command_alias(command_name) ==
    IF command_name = PublishRenderedMovies THEN PublishCommand ELSE command_name

\* _get_command_override(engine, command_name, default_callback): the callback
\* to run, or a KeyError when the panel app is not loaded.
get_command_override(command_name, has_panel_app, has_entity) ==
    IF command_name \in PanelCommands
    THEN IF ~has_panel_app THEN Raises
         ELSE IF has_entity THEN Returns([command |-> command_name, kind |-> "navigate"])
         ELSE Returns([command |-> command_name, kind |-> "default"])
    ELSE Returns([command |-> command_name, kind |-> "default"])

\* A trap that lets the callback's exception through.
execute_without_exception_trap(callback, outcome) ==
    IF callback = None
    THEN [runs |-> 0, logged |-> 0, propagated |-> FALSE, callback |-> callback]
    ELSE IF outcome = "returns"
    THEN [runs |-> 1, logged |-> 0, propagated |-> FALSE, callback |-> None]
    ELSE [runs |-> 1, logged |-> 0, propagated |-> TRUE, callback |-> callback]

\* _execute_within_exception_trap(), with self._callback = callback: how
\* often the callback ran, how many exceptions were logged, whether one left
\* the function, and self._callback afterwards.
execute_within_exception_trap(callback, outcome) ==
    IF callback = None
    THEN [runs |-> 0, logged |-> 0, propagated |-> FALSE, callback |-> callback]
    ELSE IF outcome = "returns"
    THEN [runs |-> 1, logged |-> 0, propagated |-> FALSE, callback |-> None]
    ELSE IF outcome = "Exception"
    THEN [runs |-> 1, logged |-> 1, propagated |-> FALSE, callback |-> None]
    ELSE [runs |-> 1, logged |-> 0, propagated |-> TRUE, callback |-> callback]

\* An app registers a command.
RegisterCommand(command_name) ==
    /\ command_name \notin commands
    /\ commands' = commands \cup {command_name}
    /\ UNCHANGED <<_callback, ecall, NotCommand>>

\* execute_command(command_name), the call of _execute_callback included.
ExecuteCommand(command_name, has_panel_app, has_entity, outcome) ==
    LET name == command_alias(command_name)
        override == get_command_override(name, has_panel_app, has_entity)
        done == execute_within_exception_trap(override.value, outcome)
        call == [NoCommand EXCEPT !.command_name = command_name, !.commands = commands]
    IN /\ IF name \notin commands
          THEN /\ ecall' = call
               /\ _callback' = _callback
          ELSE IF override.raised
          THEN /\ ecall' = [call EXCEPT !.propagated = TRUE]
               /\ _callback' = _callback
          ELSE /\ ecall' = [call EXCEPT !.callback = override.value,
                                        !.outcome = outcome,
                                        !.runs = done.runs,
                                        !.logged = done.logged,
                                        !.propagated = done.propagated]
               /\ _callback' = done.callback
       /\ UNCHANGED <<commands, NotCommand>>

CommandNext ==
    \/ \E command_name \in RegisteredNames : RegisterCommand(command_name)
    \/ \E command_name \in MenuNames, has_panel_app, has_entity \in BOOLEAN,
          outcome \in CallbackOutcomes :
          ExecuteCommand(command_name, has_panel_app, has_entity, outcome)

\* ------------------------------------------------------------- task status

StatusTaskIds == 1..NumStatusTasks

\* find_one finds no task of the id.
NoTask == "<no task>"

\* sg_status_list: a status, or None on a task that has none.
Statuses == {"fin", "clsd", "rev", "ip", NoneStr}

NoUpdate == [called |-> FALSE, requests |-> <<>>, warned |-> FALSE, raised |-> FALSE]

\* A test for the final statuses that knows 'fin' only.
is_final_fin_only(current_status) == current_status = "fin"

\* `current_status in ('fin', 'clsd')`
is_final(current_status) == current_status \in {"fin", "clsd"}

\* Someone sets the status of a task, or deletes the task.
SetStatus(task, status) ==
    /\ ucall = NoUpdate
    /\ task_status[task] # status
    /\ task_status' = [task_status EXCEPT ![task] = status]
    /\ UNCHANGED <<ctx_task, ucall, NotStatus>>

\* The engine's context is one with the task, or with no task.
SetContext(task) ==
    /\ ucall = NoUpdate
    /\ ctx_task # task
    /\ ctx_task' = task
    /\ UNCHANGED <<task_status, ucall, NotStatus>>

\* update_status(); `permitted` says whether the site lets the user update
\* the task.
UpdateStatus(permitted) ==
    /\ ucall = NoUpdate
    /\ IF ctx_task = None
       THEN \* ctx.task['id'] raises TypeError
            /\ ucall' = [NoUpdate EXCEPT !.called = TRUE, !.raised = TRUE]
            /\ task_status' = task_status
       ELSE LET id == ctx_task[1]
                current_status == IF task_status[id] = NoTask THEN NoneStr
                                  ELSE task_status[id]
                request == [entity_type |-> "Task", id |-> id,
                            data |-> [sg_status_list |-> "rev"]]
            IN IF is_final(current_status)
               THEN /\ ucall' = [NoUpdate EXCEPT !.called = TRUE]
                    /\ task_status' = task_status
               ELSE IF permitted /\ task_status[id] # NoTask
               THEN /\ ucall' = [NoUpdate EXCEPT !.called = TRUE,
                                                 !.requests = <<request>>]
                    /\ task_status' = [task_status EXCEPT ![id] = "rev"]
               ELSE /\ ucall' = [NoUpdate EXCEPT !.called = TRUE,
                                                 !.requests = <<request>>,
                                                 !.warned = TRUE]
                    /\ task_status' = task_status
    /\ UNCHANGED <<ctx_task, NotStatus>>

\* The caller goes on.
UpdateStatusReturn ==
    /\ ucall # NoUpdate
    /\ ucall' = NoUpdate
    /\ UNCHANGED <<task_status, ctx_task, NotStatus>>

StatusNext ==
    \/ \E task \in StatusTaskIds, status \in Statuses \cup {NoTask} : SetStatus(task, status)
    \/ \E task \in {None} \cup {Some(t) : t \in StatusTaskIds} : SetContext(task)
    \/ \E permitted \in BOOLEAN : UpdateStatus(permitted)
    \/ UpdateStatusReturn

\* ---------------------------------------------------------- specifications

\* The state before anything is collected, resolved or published.
Init ==
    /\ shot_tracks = [s \in Seqs |-> <<>>]
    /\ sequence_edits = [s \in Seqs |-> <<>>]
    /\ gpc = "editing"
    /\ start = 0  \* no call yet
    /\ stack = <<>>
    /\ result = <<>>
    /\ warned = 0
    /\ sg_tasks = <<>>
    /\ rcall = NoCall
    /\ sg_publishes = <<>>
    /\ items = <<>>
    /\ lcall = NoLookup
    /\ pcall = NoParse
    /\ render_files = <<>>
    /\ render_dirs = <<>>
    /\ cpc = "listing"
    /\ cpos = 1
    /\ movie_items = <<>>
    /\ vcall = NoVersionCall
    /\ session_items = <<>>
    /\ seq_items = <<>>
    /\ actions = <<>>
    /\ apos = 1
    /\ executed = <<>>
    /\ lpc = "idle"
    /\ commands = {}
    /\ _callback = None
    /\ ecall = NoCommand
    /\ task_status = [t \in StatusTaskIds |-> NoneStr]
    /\ ctx_task = None
    /\ ucall = NoUpdate

SpecPublish == Init /\ [][PublishNext]_vars

SpecLookup == Init /\ [][LookupNext]_vars

SpecGraph == Init /\ [][GraphNext]_vars

SpecResolve == Init /\ [][ResolveNext]_vars

SpecParse == Init /\ [][ParseNext]_vars

SpecCollect == Init /\ [][CollectNext]_vars

SpecVersion == Init /\ [][VersionNext]_vars

SpecItems == Init /\ [][ItemsNext]_vars

SpecLoader == Init /\ [][LoaderNext]_vars

SpecCommand == Init /\ [][CommandNext]_vars

SpecStatus == Init /\ [][StatusNext]_vars

\* ------------------------------------------- edit-graph traversal: claims

\* The sequences that use `s` in one of their sections.
Parents(s) == {sequence_edits[s][i].sequence : i \in 1..Len(sequence_edits[s])}

\* A root: a sequence with no parent edits.
IsRoot(s) == sequence_edits[s] = <<>>

NoRepeat(p) == \A i, j \in 1..Len(p) : p[i] = p[j] => i = j

\* The simple paths from `s` up to a root: no sequence twice, every
\* consecutive pair linked by an edit.
SimplePathsFrom(s) ==
    {p \in UNION {[1..k -> Seqs] : k \in 1..NumSeqs} :
        /\ p[1] = s
        /\ IsRoot(p[Len(p)])
        /\ NoRepeat(p)
        /\ \A i \in 1..(Len(p) - 1) : p[i + 1] \in Parents(p[i])}

\* How many times `p` occurs in the list `paths`.
Occurrences(p, paths) == Cardinality({i \in 1..Len(paths) : paths[i] = p})

\* An edit of the graph closes a cycle on some branch from `s`: a simple
\* chain of edits from `s` ends in a sequence used by a sequence of the chain.
CycleReachableFrom(s) ==
    \E p \in UNION {[1..k -> Seqs] : k \in 1..NumSeqs} :
        /\ p[1] = s
        /\ NoRepeat(p)
        /\ \A i \in 1..(Len(p) - 1) : p[i + 1] \in Parents(p[i])
        /\ Parents(p[Len(p)]) \cap Range(p) # {}

\* C1: a parent edit whose sequence is already on the branch is reported and
\* skipped without any exception, and the call returns normally with exactly
\* the paths that use no cyclic edge.
C1_CycleEdgeSkipped ==
    /\ gpc # "raised"
    /\ gpc = "done" =>
          /\ Range(result) = SimplePathsFrom(start)
          /\ CycleReachableFrom(start) => warned > 0

\* C2: on every edit graph and for every start node the call returns, and
\* returns every distinct simple path from the start node up to a root
\* exactly once.
C2_EveryPathExactlyOnce ==
    gpc \in {"done", "raised"} =>
        /\ gpc = "done"
        /\ Range(result) \subseteq SimplePathsFrom(start)
        /\ \A p \in SimplePathsFrom(start) : Occurrences(p, result) = 1

RECURSIVE SumOver(_, _, _)

\* The steps one activation on `s`, entered with the set `vis` of sequences
\* on the branch, takes until it returns (the steps of its callees included).
RECURSIVE WalkCost(_, _)
WalkCost(s, vis) ==
    IF IsRoot(s) THEN 1
    ELSE 1 + SumOver(sequence_edits[s], vis \cup {s}, 1)

\* The steps of the edits from position `i` on, walked with `vis` on the
\* branch: one step to skip a cyclic edit, a call and its walk otherwise.
SumOver(edits, vis, i) ==
    IF i > Len(edits) THEN 0
    ELSE (IF edits[i].sequence \in vis THEN 1
          ELSE 1 + WalkCost(edits[i].sequence, vis))
         + SumOver(edits, vis, i + 1)

\* The steps left on the call stack: for every activation its return and the
\* edits its loop has not started yet.
RECURSIVE StepsLeft(_, _)
StepsLeft(stk, k) ==
    IF k = 0 THEN 0
    ELSE LET f == stk[k]
             from == IF k = Len(stk) THEN f.idx ELSE f.idx + 1
         IN StepsLeft(stk, k - 1) +
            (IF IsRoot(f.level_sequence) THEN 1
             ELSE 1 + SumOver(sequence_edits[f.level_sequence], Range(f.visited), from))

\* A step of the traversal.
WalkStep == ReturnSingle \/ DetectCycle \/ Recurse \/ ReturnAllPaths

\* C3: the traversal terminates on every finite graph, cycles and self-loops
\* included: while it runs a step is always possible, every step strictly
\* decreases the number of steps left, no sequence is twice on a branch and
\* the depth of the recursion never exceeds the number of sequences.
C3_Terminates ==
    [][ /\ Len(stack') <= NumSeqs
        /\ \A k \in 1..Len(stack') : NoRepeat(stack'[k].visited)
        /\ gpc = "walking" =>
              /\ ENABLED WalkStep
              /\ StepsLeft(stack, Len(stack)) > StepsLeft(stack', Len(stack'))
              /\ StepsLeft(stack', Len(stack')) >= 0
        /\ gpc' \in {"done", "raised"} => stack' = <<>> ]_vars

\* The recursion is as deep as the graph allows and meets a cyclic edge.
C3_Witness ==
    /\ gpc = "walking"
    /\ Len(stack) = NumSeqs
    /\ Top.idx <= Len(TopEdits)
    /\ TopEdits[Top.idx].sequence \in Range(Top.visited)

\* ------------------------------------------------ context resolver: claims

\* The entities of the current project the last call's (category, code) names.
CalledEntities ==
    IF rcall.fn = "create_asset_context"
    THEN {[type |-> "Asset", id |-> a.id] : a \in
            {x \in SgAssets : x.project = "P1" /\ x.sg_asset_type = rcall.category
                                /\ x.code = rcall.code}}
    ELSE IF rcall.fn = "create_shot_context"
    THEN {[type |-> "Shot", id |-> a.id] : a \in
            {x \in SgShots : x.project = "P1" /\ x.scene = rcall.category
                               /\ x.code = rcall.code}}
    ELSE {}

\* The tasks of entity `e` whose content equals the last call's hint.
HintTasks(e) ==
    {t \in 1..Len(sg_tasks) :
        /\ rcall.task_name # NoneStr
        /\ sg_tasks[t].entity = e
        /\ sg_tasks[t].content = rcall.task_name}

\* The tasks of entity `e` whose step short name equals the last call's step.
StepTasks(e) ==
    {t \in 1..Len(sg_tasks) : sg_tasks[t].entity = e /\ sg_tasks[t].step = rcall.step}

\* The returned context is the one of task `t`.
ReturnsTask(t) ==
    /\ rcall.ret # <<>>
    /\ rcall.ret[1].task = t
    /\ rcall.ret[1].entity = sg_tasks[t].entity
    /\ rcall.ret[1].step = sg_tasks[t].step
    /\ rcall.ret[1].project = "P1"

\* C5: with a hint and a task of the resolved entity whose content equals the
\* hint, the returned context is built from a hint-matched task, whatever
\* task matches the step.
C5_HintMatchWins ==
    \A e \in CalledEntities :
        HintTasks(e) # {} => \E t \in HintTasks(e) : ReturnsTask(t)

\* A hint-matched task was returned although another task of the entity
\* matches the step and the returned one does not.
C5_Witness ==
    \E e \in CalledEntities : \E t \in HintTasks(e) :
        /\ ReturnsTask(t)
        /\ t \notin StepTasks(e)
        /\ StepTasks(e) # {}

\* C6: without a hint, or with a hint no task of the entity matches, the
\* returned context is built from a task of the entity whose step short name
\* equals the given step, when there is one.
C6_StepFallback ==
    \A e \in CalledEntities :
        (HintTasks(e) = {} /\ StepTasks(e) # {}) =>
            \E t \in StepTasks(e) : ReturnsTask(t)

\* A non-matching hint was given for an entity that has only step-matched
\* tasks, and the resolution succeeded.
C6_Witness ==
    \E e \in CalledEntities : \E t \in StepTasks(e) :
        /\ rcall.task_name \notin {NoneStr, ""}
        /\ HintTasks(e) = {}
        /\ \A u \in 1..Len(sg_tasks) : sg_tasks[u].entity = e => u \in StepTasks(e)
        /\ ReturnsTask(t)

\* C7: the resolver returns None exactly when the entity is not found in the
\* current project or neither lookup finds a task on it; otherwise it
\* returns the context of a task of the found entity.
C7_NoneExactlyWhenNothingFound ==
    rcall.fn # "none" =>
        /\ rcall.ret = <<>> <=>
              \A e \in CalledEntities : HintTasks(e) = {} /\ StepTasks(e) = {}
        /\ rcall.ret # <<>> =>
              \E e \in CalledEntities : \E t \in HintTasks(e) \cup StepTasks(e) :
                  ReturnsTask(t)

\* The entity was found and has tasks, none matches, and None was returned.
C7_Witness ==
    /\ rcall.fn # "none"
    /\ rcall.ret = <<>>
    /\ rcall.task_name \notin {NoneStr, ""}
    /\ \E e \in CalledEntities : \E t \in 1..Len(sg_tasks) : sg_tasks[t].entity = e

\* ------------------------------------------------ version resolver: claims

\* The rows of the same (project, entity, published name) triple as item `i`.
RowsOfItem(i) ==
    {p \in 1..Len(sg_publishes) :
        /\ sg_publishes[p].project = items[i].context.project
        /\ sg_publishes[p].entity = items[i].context.entity
        /\ sg_publishes[p].name = items[i].name}

\* Among `rows`, those with the greatest version number.
Latest(rows) ==
    {p \in rows : \A q \in rows :
        sg_publishes[q].version_number <= sg_publishes[p].version_number}

\* C4: version numbers are 1-based and no two registered publishes of the
\* same (project, entity, published name) triple carry the same version
\* number, whatever the interleaving of the reads and the registrations.
C4_NoVersionCollision ==
    \A p, q \in 1..Len(sg_publishes) :
        /\ sg_publishes[p].version_number >= 1
        /\ (/\ p # q
            /\ sg_publishes[p].project = sg_publishes[q].project
            /\ sg_publishes[p].entity = sg_publishes[q].entity
            /\ sg_publishes[p].name = sg_publishes[q].name)
           => sg_publishes[p].version_number # sg_publishes[q].version_number

\* C8: when accept reaches the staleness check and a last publish row exists,
\* the movie is rejected if and only if its modification time is strictly
\* less than the row's updated_at; with no row nothing is rejected.
C8_StalenessStrict ==
    [][\A i \in 1..Len(items) :
          (/\ items[i].kind = "movie"
           /\ items[i].phase = "collected"
           /\ items'[i].phase \in {"accepted", "rejected"})
          => IF RowsOfItem(i) = {}
             THEN items'[i].phase = "accepted"
             ELSE /\ items'[i].phase = "rejected" =>
                       \E p \in Latest(RowsOfItem(i)) :
                           items[i].mtime < sg_publishes[p].updated_at
                  /\ items'[i].phase = "accepted" =>
                       \E p \in Latest(RowsOfItem(i)) :
                           items[i].mtime >= sg_publishes[p].updated_at]_vars

\* A movie was accepted whose modification time equals the updated_at of the
\* latest row of its triple.
C8_Witness ==
    \E i \in 1..Len(items) :
        /\ items[i].kind = "movie"
        /\ items[i].phase = "accepted"
        /\ RowsOfItem(i) # {}
        /\ \A p \in Latest(RowsOfItem(i)) :
              /\ sg_publishes[p].updated_at = items[i].mtime
              /\ sg_publishes[p].version_number + 1 = items[i].version

\* C9: the version validate (actor) and accept (movie) choose for the new
\* publish is 1 when no row exists for the context and published name, and
\* the latest row's version_number + 1 otherwise.
C9_NextVersion ==
    [][\A i \in 1..Len(items) :
          (\/ /\ items[i].kind = "actor"
              /\ items'[i] # items[i]
              /\ items'[i].phase = "validated"
           \/ /\ items[i].kind = "movie"
              /\ items[i].phase = "collected"
              /\ items'[i].phase = "accepted")
          => IF RowsOfItem(i) = {}
             THEN items'[i].version = 1
             ELSE \E p \in Latest(RowsOfItem(i)) :
                     items'[i].version = sg_publishes[p].version_number + 1]_vars

\* An actor was validated and a movie accepted, both one above the highest
\* version another tool had registered.
C9_Witness ==
    /\ \E i \in 1..Len(items) :
          /\ items[i].kind = "actor"
          /\ items[i].phase = "validated"
          /\ items[i].version = MaxVersion + 1
    /\ \E i \in 1..Len(items) :
          /\ items[i].kind = "movie"
          /\ items[i].phase = "accepted"
          /\ items[i].version = MaxVersion + 1

\* The rows whose project, entity and name equal the last lookup's.
RowsOfLookup ==
    {p \in 1..Len(sg_publishes) :
        /\ sg_publishes[p].project = lcall.ctx.project
        /\ sg_publishes[p].entity = lcall.ctx.entity
        /\ sg_publishes[p].name = lcall.published_name}

\* C10: last_published_info and last_published_version return the row (the
\* version number) with the greatest version_number among the rows of the
\* context's project and entity with exactly the given name, and None when
\* there is none; no other row influences the result.
C10_LatestOfTriple ==
    lcall.fn # "none" =>
        IF RowsOfLookup = {}
        THEN lcall.ret = <<>>
        ELSE /\ lcall.ret # <<>>
             /\ \E p \in Latest(RowsOfLookup) :
                   lcall.ret[1] = sg_publishes[p].version_number
             /\ lcall.fn = "last_published_info" => lcall.id \in Latest(RowsOfLookup)

\* A lookup returned the row of its triple although a row of another
\* project, entity or name has a greater version number.
C10_Witness ==
    /\ lcall.fn = "last_published_info"
    /\ lcall.ret # <<>>
    /\ \E p \in 1..Len(sg_publishes) :
          /\ p \notin RowsOfLookup
          /\ sg_publishes[p].version_number > lcall.ret[1]

\* ------------------------------------------------ name and path parsers: claims

\* The pieces of the argument of the last call, split on '/'.
ArgPieces == Split(pcall.arg, "/")

\* The argument starts with the given root marker, letter case aside.
StartsWithMarker(marker) ==
    /\ Len(ArgPieces) >= 3
    /\ ArgPieces[1] = Empty
    /\ Lower(ArgPieces[2]) = Lower(Game)
    /\ Lower(ArgPieces[3]) = Lower(marker)

\* The argument starts with the marker as the source spells it.
StartsWithSpelledMarker(markers) ==
    /\ Len(ArgPieces) >= 3
    /\ ArgPieces[1] = Empty
    /\ ArgPieces[2] = Game
    /\ ArgPieces[3] \in markers

\* Number of segments after the marker.
TailCount == Len(ArgPieces) - 3

IsTuple(ret, n) == ~ret.raised /\ ret.value # None /\ Len(ret.value[1]) = n

\* C11: every parser is total on strings: called on any string it returns a
\* well-formed tuple (three strings, four for a movie path) or None, and
\* never raises.
C11_ParsersTotal ==
    pcall.fn # "none" =>
        /\ ~pcall.ret.raised
        /\ \/ pcall.ret = ReturnsNone
           \/ IsTuple(pcall.ret, IF pcall.fn = "ctx_from_movie_path" THEN 4 ELSE 3)

\* C12: ctx_from_asset_path returns None for every path that does not start
\* with the assets marker and for every path that starts with it but has
\* fewer than two segments after it.
C12_AssetNoMatch ==
    (/\ pcall.fn = "ctx_from_asset_path"
     /\ (~StartsWithMarker(Assets) \/ TailCount < 2))
    => pcall.ret = ReturnsNone

\* C13: for a path that starts with the assets marker followed by a category
\* and a code, ctx_from_asset_path returns (category, code, step), the step
\* being the segment after the code when there is one and 'MDL' otherwise.
C13_AssetStep ==
    (/\ pcall.fn = "ctx_from_asset_path"
     /\ StartsWithSpelledMarker({Assets, assets})
     /\ TailCount >= 2)
    => /\ pcall.ret = Returns(<<ArgPieces[4], ArgPieces[5],
                                IF TailCount >= 3 THEN ArgPieces[6] ELSE MDL>>)
       /\ pcall.arg = Join("/", <<Empty, Game, Assets, Prop, SM_Gun>>)
            => pcall.ret = Returns(<<Prop, SM_Gun, MDL>>)
       /\ pcall.arg = Join("/", <<Empty, Game, Assets, Prop, SM_Gun, LAY>>)
            => pcall.ret = Returns(<<Prop, SM_Gun, LAY>>)

\* C13 witness: a path of the marker, a category and a code was parsed and
\* the default step came back.
C13_Witness ==
    /\ pcall.fn = "ctx_from_asset_path"
    /\ StartsWithSpelledMarker({Assets, assets})
    /\ TailCount = 2
    /\ IsTuple(pcall.ret, 3)
    /\ pcall.ret.value[1][3] = MDL

\* C14: ctx_from_asset_path compares the marker case-insensitively: a path
\* gives the result of the same path with the marker spelled '/Game/Assets'.
C14_MarkerCaseInsensitive ==
    (pcall.fn = "ctx_from_asset_path" /\ StartsWithMarker(Assets))
    => pcall.ret =
         ctx_from_asset_path(Join("/", <<Empty, Game, Assets>> \o
                                        SubSeq(ArgPieces, 4, Len(ArgPieces))))

\* A removal of the one suffix `suffix`, if the string ends with it.
RemoveSuffix(str, suffix) ==
    IF /\ Len(str) >= Len(suffix)
       /\ SubSeq(str, Len(str) - Len(suffix) + 1, Len(str)) = suffix
    THEN SubSeq(str, 1, Len(str) - Len(suffix))
    ELSE str

\* The '_'-separated tokens of the sequence name once '_sub' is removed.
NameTokens == Split(RemoveSuffix(pcall.arg, <<"_">> \o sub), "_")

\* C15: ctx_from_sequence removes the suffix '_sub' and only it: a name of
\* three tokens, with or without the suffix, gives (scene, scene_code, step)
\* with the step unchanged; any other token count gives None.
C15_SequenceName ==
    pcall.fn = "ctx_from_sequence" =>
        IF Len(NameTokens) = 3
        THEN (\A i \in 1..3 : NameTokens[i] # Empty) =>
                pcall.ret = Returns(<<NameTokens[1],
                                      Join("_", <<NameTokens[1], NameTokens[2]>>),
                                      NameTokens[3]>>)
        ELSE pcall.ret = ReturnsNone

\* The basename of the movie path without its extensions, in at most three
\* '_'-separated parts.
MovieParts == SplitMax(Split(basename(pcall.arg), ".")[1], "_", 2)

\* C16: ctx_from_movie_path returns (scene, shot, step_hint, task_name) with
\* scene = part 0, shot = part0_part1 and step_hint = the third part when
\* there is one (the fixed default otherwise); fewer than two parts: None.
C16_MovieStepHint ==
    pcall.fn = "ctx_from_movie_path" =>
        IF Len(MovieParts) < 2 THEN pcall.ret = ReturnsNone
        ELSE /\ IsTuple(pcall.ret, 4)
             /\ pcall.ret.value[1][1] = MovieParts[1]
             /\ pcall.ret.value[1][2] = Join("_", <<MovieParts[1], MovieParts[2]>>)
             /\ pcall.ret.value[1][3] =
                    IF Len(MovieParts) = 3 THEN MovieParts[3] ELSE LGT

\* The media extensions of the allow-list.
MediaExts == {<<".", "m", "o", "v">>}

\* C17: ctx_from_movie_path returns None for every filename whose extension
\* is outside the allow-list of media extensions.
C17_MovieExtAllowList ==
    (/\ pcall.fn = "ctx_from_movie_path"
     /\ splitext(pcall.arg)[2] # Empty
     /\ Lower(splitext(pcall.arg)[2]) \notin MediaExts)
    => pcall.ret = ReturnsNone

\* C19 as stated: ctx_from_shot_path matches only paths of exactly three
\* segments after the scenes marker.
C19_ExactlyThree ==
    (/\ pcall.fn = "ctx_from_shot_path"
     /\ IsTuple(pcall.ret, 3)
     /\ \A i \in 4..Len(ArgPieces) : ArgPieces[i] # Empty)
    => TailCount = 3

\* C19 amended: ctx_from_shot_path matches exactly the paths of at least
\* three segments after the scenes marker and returns the first three as
\* (scene, shot, step); the segments after the third are ignored.
C19_AtLeastThree ==
    pcall.fn = "ctx_from_shot_path" =>
        IF StartsWithSpelledMarker({Scenes, scenes}) /\ TailCount >= 3
        THEN pcall.ret = Returns(<<ArgPieces[4], ArgPieces[5], ArgPieces[6]>>)
        ELSE pcall.ret = ReturnsNone

\* C19 witness: a path of more than three segments after the marker was
\* matched.
C19_Witness ==
    /\ pcall.fn = "ctx_from_shot_path"
    /\ TailCount > 3
    /\ \A i \in 4..Len(ArgPieces) : ArgPieces[i] # Empty
    /\ IsTuple(pcall.ret, 3)

\* C20: ctx_from_shot_path returns None, without raising, for every path of
\* fewer than three segments after the scenes marker and for every path that
\* does not start with the marker.
C20_ShotNoMatch ==
    (/\ pcall.fn = "ctx_from_shot_path"
     /\ (~StartsWithSpelledMarker({Scenes, scenes}) \/ TailCount < 3))
    => pcall.ret = ReturnsNone

\* C20 witness: a path of the marker and two segments was parsed.
C20_Witness ==
    /\ pcall.fn = "ctx_from_shot_path"
    /\ StartsWithSpelledMarker({Scenes, scenes})
    /\ TailCount = 2
    /\ pcall.ret = ReturnsNone

\* ------------------------------------- collection of rendered movies: claims

\* The contexts the movie file `path` resolves to: none when its extension
\* is not '.mov', its name does not parse or no task is found.
ResolvableContexts(path) ==
    LET ctx == ctx_from_movie_path(path)
    IN IF Lower(splitext(path)[2]) = DotMov /\ ctx.value # None
       THEN ShotContexts(ctx.value[1][1], ctx.value[1][2], ctx.value[1][3]) \ {None}
       ELSE {}

ItemsOf(path) == {k \in 1..Len(movie_items) : movie_items[k].movie_path = path}

\* C18: collect_rendered_movies never ends with an exception; once it is
\* through the folder, every file whose name parses and whose context
\* resolves has exactly one item, carrying that context, and every other
\* file has none.
C18_BatchPartialFailure ==
    /\ cpc # "raised"
    /\ cpc = "done" =>
         \A i \in 1..Len(render_files) :
            LET path == PathJoin(MoviesDir, render_files[i])
            IN IF ResolvableContexts(path) = {} THEN ItemsOf(path) = {}
               ELSE /\ Cardinality(ItemsOf(path)) = 1
                    /\ \A k \in ItemsOf(path) :
                          Some(movie_items[k].context) \in ResolvableContexts(path)

\* ---------------------------------------- version-suffix functions: claims

\* The name ends with ' v<digits>'.
HasVersionSuffix(name) ==
    /\ rpartition(name, SpaceV)[2] # Empty
    /\ ~IntRaises(rpartition(name, SpaceV)[3])

\* set_version(x, get_version(x) + 1); None + 1 raises TypeError.
SetOfGetPlusOne(name) ==
    IF get_version(name) = ReturnsNone THEN Raises
    ELSE set_version(name, get_version(name).value[1] + 1)

C28_ContextAlwaysSet ==
    \A i \in 1..Len(session_items) :
        /\ session_items[i].returned
        /\ session_items[i].context # None
        /\ \/ session_items[i].context = Some(InheritedContext)
           \/ session_items[i].context[1].task \in 1..Len(sg_tasks)

\* ------------------------------------ edit-graph traversal: paths and items

\* Leaf is used in Seq, Seq in Master, and nothing else uses them.
IsChain(leaf, seq, master) ==
    /\ Cardinality({leaf, seq, master}) = 3
    /\ Parents(leaf) = {seq} /\ Len(sequence_edits[leaf]) = 1
    /\ Parents(seq) = {master} /\ Len(sequence_edits[seq]) = 1
    /\ IsRoot(master)

\* C22: every path the traversal returns has the start sequence first and a
\* root last; every edits_path stored on an item is the reversed path, root
\* first and start last; for a chain Leaf in Seq in Master the traversal from
\* Leaf returns the one path [Leaf, Seq, Master], stored as [Master, Seq, Leaf].
C22_PathOrder ==
    /\ gpc = "done" =>
          \A i \in 1..Len(result) :
              /\ result[i][1] = start
              /\ IsRoot(result[i][Len(result[i])])
    /\ \A k \in 1..Len(seq_items) :
          seq_items[k].edits_path # None =>
              LET edits_path == seq_items[k].edits_path[1]
              IN /\ IsRoot(edits_path[1])
                 /\ edits_path[Len(edits_path)] = start
                 /\ \A i \in 1..Len(edits_path) :
                       edits_path[i] = result[k][Len(edits_path) + 1 - i]
    /\ \A leaf, seq, master \in Seqs :
          (gpc = "done" /\ start = leaf /\ IsChain(leaf, seq, master)) =>
              /\ result = << <<leaf, seq, master>> >>
              /\ \A k \in 1..Len(seq_items) :
                    seq_items[k].edits_path \in {None, Some(<<master, seq, leaf>>)}

\* C22 (witness): the item of a chain of three carries its reversed path.
C22_Witness ==
    \E leaf, seq, master \in Seqs :
        /\ gpc = "done" /\ start = leaf /\ IsChain(leaf, seq, master)
        /\ Len(seq_items) = 1
        /\ seq_items[1].edits_path = Some(<<master, seq, leaf>>)

\* C23: the traversal from a sequence without parent edits returns exactly
\* the one path that holds the sequence alone.
C23_RootReturnsItself ==
    (gpc = "done" /\ sequence_edits[start] = <<>>) => result = << <<start>> >>

\* C23 (witness): a root of a graph that has edits was traversed.
C23_Witness ==
    /\ gpc = "done"
    /\ sequence_edits[start] = <<>>
    /\ \E s \in Seqs : sequence_edits[s] # <<>>
    /\ result = << <<start>> >>

\* C26: in every activation the visited list is exactly the branch from the
\* start sequence to the current one, in order; so a sequence met on a sibling
\* branch only is not taken for a cycle: in a graph without a cycle above the
\* start no warning is given and every path to a root is returned.
C26_VisitedPathLocal ==
    /\ \A k \in 1..Len(stack) :
          stack[k].visited = [i \in 1..k |-> stack[i].level_sequence]
    /\ (gpc = "done" /\ ~CycleReachableFrom(start)) =>
          /\ warned = 0
          /\ SimplePathsFrom(start) \subseteq Range(result)

\* C26 (witness): two returned paths reach the same sequence through
\* different branches.
C26_Witness ==
    /\ gpc = "done"
    /\ \E i, j \in 1..Len(result) :
          /\ Len(result[i]) # Len(result[j])
          /\ \E s \in Seqs \ {start} : s \in Range(result[i]) \cap Range(result[j])

\* C27: every returned path starts with the start sequence, ends with a
\* root, holds no sequence twice and follows the edits; and the call on a
\* start sequence without any such path to a root returns the empty list.
C27_PathsWellFormed ==
    /\ gpc = "done" => \A i \in 1..Len(result) : result[i] \in SimplePathsFrom(start)
    /\ (gpc \in {"done", "raised"} /\ SimplePathsFrom(start) = {}) =>
          /\ gpc = "done"
          /\ result = <<>>

\* ------------------------------------------- context resolver: side effects

\* C24: a call of create_asset_context or create_shot_context changes no
\* task and no publish record (the entities and the engine's context, its
\* project, are fixed in the model: no step changes them).
C24_ResolutionReadOnly ==
    [][(rcall.fn = "none" /\ rcall'.fn # "none") =>
          /\ sg_tasks' = sg_tasks
          /\ sg_publishes' = sg_publishes]_vars

\* C24 (witness): a resolution that found a task and built its context.
C24_Witness ==
    /\ rcall.fn \in {"create_asset_context", "create_shot_context"}
    /\ rcall.ret # None
    /\ Len(sg_tasks) > 0

\* ---------------------------------------------------- loader actions: claims

\* The entry raises: its path cannot be resolved, it is an import of a file
\* that is not on disk, or the base class raises another error than
\* AttributeError for it.
EntryFails(entry) ==
    \/ entry.path \in {"unresolved", "not on disk"}
    \/ entry.base = "Exception"

\* The position of the first entry that raises, one past the end without one.
FirstFailure ==
    IF \E i \in 1..Len(actions) : EntryFails(actions[i])
    THEN CHOOSE i \in 1..Len(actions) :
            /\ EntryFails(actions[i])
            /\ \A j \in 1..(i - 1) : ~EntryFails(actions[j])
    ELSE Len(actions) + 1

\* C25: execute_action is called on the entries in list order, once each, up
\* to the first entry that raises; the call ends with that error and no later
\* entry is executed, and it returns only when no entry raised.
C25_StopsAtFirstError ==
    /\ executed = [i \in 1..Len(executed) |-> i]
    /\ Len(executed) <= FirstFailure
    /\ lpc = "raised" => (FirstFailure <= Len(actions) /\ Len(executed) = FirstFailure)
    /\ lpc = "done" => (FirstFailure > Len(actions) /\ Len(executed) = Len(actions))

\* C25 (witness): the second of three actions raised.
C25_Witness ==
    /\ lpc = "raised"
    /\ Len(actions) = 3
    /\ executed = <<1, 2>>

\* ----------------------------------------------------- menu commands: claims

\* What C29 says of a call whose callback returned or raised an Exception.
TrapHolds ==
    /\ ecall.runs <= 1
    /\ ecall.outcome = "Exception" =>
          /\ ecall.runs = 1
          /\ ecall.logged = 1
          /\ ~ecall.propagated
          /\ _callback = None
    /\ ecall.outcome = "returns" =>
          /\ ecall.runs = 1
          /\ ecall.logged = 0
          /\ ~ecall.propagated
          /\ _callback = None

\* C29: an Exception of the callback is logged and does not leave
\* execute_command, the callback runs at most once, _callback is None after
\* a callback that returned or raised an Exception, and a command name that
\* is not in engine.commands runs no callback.
C29_UnknownNameRunsNothing ==
    /\ TrapHolds
    /\ ecall.command_name \notin ecall.commands => ecall.runs = 0

\* C29 (amended): as above, but a name that is not in engine.commands runs no
\* callback unless it is 'Publish rendered movies...' while 'Publish...' is
\* in engine.commands.
C29_UnknownNameButAlias ==
    /\ TrapHolds
    /\ (/\ ecall.command_name \notin ecall.commands
        /\ ~(ecall.command_name = "Publish rendered movies..."
             /\ "Publish..." \in ecall.commands))
          => ecall.runs = 0

\* C29 (witness): 'Publish rendered movies...' ran the publish callback,
\* whose Exception was logged and trapped.
C29_Witness ==
    /\ ecall.command_name = "Publish rendered movies..."
    /\ ecall.command_name \notin ecall.commands
    /\ ecall.outcome = "Exception"
    /\ ecall.runs = 1
    /\ ecall.logged = 1
    /\ ~ecall.propagated
    /\ _callback = None

\* ------------------------------------------------------- task status: claims

\* C30: a call of update_status in a context with a task leaves every status
\* as it is when the task's status is 'fin' or 'clsd'; otherwise it requests
\* one update, of sg_status_list of that task to 'rev', and changes no other
\* task; no exception leaves it, and when the update fails a warning is
\* written and no status changes.
C30_UpdateStatus ==
    [][(ucall = NoUpdate /\ ucall' # NoUpdate /\ ctx_task # None) =>
          LET id == ctx_task[1]
          IN /\ ~ucall'.raised
             /\ \A t \in StatusTaskIds \ {id} : task_status'[t] = task_status[t]
             /\ IF task_status[id] \in {"fin", "clsd"}
                THEN /\ ucall'.requests = <<>>
                     /\ ~ucall'.warned
                     /\ task_status' = task_status
                ELSE /\ ucall'.requests =
                          <<[entity_type |-> "Task", id |-> id,
                             data |-> [sg_status_list |-> "rev"]]>>
                     /\ IF ucall'.warned THEN task_status' = task_status
                        ELSE task_status'[id] = "rev"]_vars

\* C30 (witness): the update of a task in progress was refused while another
\* task is closed.
C30_Witness ==
    /\ ucall.warned
    /\ Len(ucall.requests) = 1
    /\ ctx_task # None
    /\ task_status[ctx_task[1]] = "ip"
    /\ \E t \in StatusTaskIds : task_status[t] = "clsd"

====
